---------------------------- MODULE Spec2Model ----------------------------
(***************************************************************************)
(* A model of the skillhub-desktop filesystem engine                       *)
(* (src-tauri/src/sync.rs and src-tauri/src/tools.rs).                     *)
(*                                                                         *)
(* The filesystem is a function from absolute paths (sequences of entry    *)
(* names, <<>> being "/") to entries.  A path string, as the Rust code     *)
(* handles it, is a sequence of tokens: entry names and the separator "/". *)
(* File data is a sequence of bytes; a Rust String is a sequence of        *)
(* Unicode scalar values.                                                  *)
(***************************************************************************)
EXTENDS Integers, Sequences, FiniteSets, TLC

VARIABLES
    fs,     \* the filesystem: absolute path -> entry
    op,     \* the last call: [name |-> ..., arguments]
    res,    \* what the last call returned
    pre,    \* the filesystem before the last call
    prev,   \* the call before the last one and its result
    nops,   \* number of calls made so far
    procs   \* the operations in progress, when two run concurrently

vars == <<fs, op, res, pre, prev, nops, procs>>

(***************************************************************************)
(* Bounds of the model.                                                    *)
(***************************************************************************)
MaxOps == 2
MaxFiles == 2

(***************************************************************************)
(* Generic helpers.                                                        *)
(***************************************************************************)
Last(s) == s[Len(s)]
Front(s) == SubSeq(s, 1, Len(s) - 1)
IsPrefix(p, q) == Len(p) <= Len(q) /\ SubSeq(q, 1, Len(p)) = p
Range(s) == {s[i] : i \in 1..Len(s)}
SeqsUpTo(S, n) == UNION {[1..k -> S] : k \in 0..n}
Perms(S) == {s \in [1..Cardinality(S) -> S] : Range(s) = S}

(***************************************************************************)
(* Entry names.  A name is written as a TLA+ string; NameCodes gives its   *)
(* characters (Unicode scalar values), on which the code's tests of a name *)
(* are computed.                                                           *)
(***************************************************************************)
NameCodes ==
    ("." :> <<46>>) @@
    (".." :> <<46, 46>>) @@
    ("a" :> <<97>>) @@
    ("b" :> <<98>>) @@
    ("c" :> <<99>>) @@
    ("d" :> <<100>>) @@
    ("s" :> <<115>>) @@
    ("w" :> <<119>>) @@
    ("x" :> <<120>>) @@
    ("h" :> <<104>>) @@
    ("t" :> <<116>>) @@
    ("bin" :> <<98, 105, 110>>) @@
    ("old" :> <<111, 108, 100>>) @@
    (".git" :> <<46, 103, 105, 116>>) @@
    (".DS_Store" :> <<46, 68, 83, 95, 83, 116, 111, 114, 101>>) @@
    (".skillhub.json" :> <<46, 115, 107, 105, 108, 108, 104, 117, 98, 46, 106, 115, 111, 110>>) @@
    (".gitignore" :> <<46, 103, 105, 116, 105, 103, 110, 111, 114, 101>>) @@
    ("Thumbs.db" :> <<84, 104, 117, 109, 98, 115, 46, 100, 98>>) @@
    (".env" :> <<46, 101, 110, 118>>) @@
    (".hidden" :> <<46, 104, 105, 100, 100, 101, 110>>) @@
    (".claude" :> <<46, 99, 108, 97, 117, 100, 101>>) @@
    (".codex" :> <<46, 99, 111, 100, 101, 120>>) @@
    (".cursor" :> <<46, 99, 117, 114, 115, 111, 114>>) @@
    (".cline" :> <<46, 99, 108, 105, 110, 101>>) @@
    (".config" :> <<46, 99, 111, 110, 102, 105, 103>>) @@
    ("opencode" :> <<111, 112, 101, 110, 99, 111, 100, 101>>) @@
    (".gemini" :> <<46, 103, 101, 109, 105, 110, 105>>) @@
    (".kilocode" :> <<46, 107, 105, 108, 111, 99, 111, 100, 101>>) @@
    (".kilo" :> <<46, 107, 105, 108, 111>>) @@
    (".copilot" :> <<46, 99, 111, 112, 105, 108, 111, 116>>) @@
    (".windsurf" :> <<46, 119, 105, 110, 100, 115, 117, 114, 102>>) @@
    (".codeium" :> <<46, 99, 111, 100, 101, 105, 117, 109>>) @@
    ("windsurf" :> <<119, 105, 110, 100, 115, 117, 114, 102>>) @@
    (".roo" :> <<46, 114, 111, 111>>) @@
    (".roocode" :> <<46, 114, 111, 111, 99, 111, 100, 101>>) @@
    (".aider" :> <<46, 97, 105, 100, 101, 114>>) @@
    (".augment" :> <<46, 97, 117, 103, 109, 101, 110, 116>>) @@
    (".kiro" :> <<46, 107, 105, 114, 111>>) @@
    (".zencoder" :> <<46, 122, 101, 110, 99, 111, 100, 101, 114>>) @@
    (".zed" :> <<46, 122, 101, 100>>) @@
    ("skills" :> <<115, 107, 105, 108, 108, 115>>) @@
    ("skills-code" :> <<115, 107, 105, 108, 108, 115, 45, 99, 111, 100, 101>>) @@
    ("skills-architect" :> <<115, 107, 105, 108, 108, 115, 45, 97, 114, 99, 104, 105, 116, 101, 99, 116>>) @@
    ("rules" :> <<114, 117, 108, 101, 115>>) @@
    ("sk1" :> <<115, 107, 49>>) @@
    ("sk2" :> <<115, 107, 50>>) @@
    ("sk3" :> <<115, 107, 51>>) @@
    ("loose.md" :> <<108, 111, 111, 115, 101, 46, 109, 100>>) @@
    ("plain" :> <<112, 108, 97, 105, 110>>) @@
    ("notes" :> <<110, 111, 116, 101, 115>>) @@
    ("src" :> <<115, 114, 99>>) @@
    ("my-skill" :> <<109, 121, 45, 115, 107, 105, 108, 108>>) @@
    ("ref" :> <<114, 101, 102>>) @@
    ("dest" :> <<100, 101, 115, 116>>) @@
    ("missing" :> <<109, 105, 115, 115, 105, 110, 103>>) @@
    ("SKILL.md" :> <<83, 75, 73, 76, 76, 46, 109, 100>>) @@
    ("a_1" :> <<97, 95, 49>>) @@
    ("My-Skill" :> <<77, 121, 45, 83, 107, 105, 108, 108>>) @@
    ("A_1" :> <<65, 95, 49>>) @@
    ("sub" :> <<115, 117, 98>>) @@
    ("inner" :> <<105, 110, 110, 101, 114>>) @@
    ("f.md" :> <<102, 46, 109, 100>>) @@
    ("b.txt" :> <<98, 46, 116, 120, 116>>) @@
    ("B.txt" :> <<66, 46, 116, 120, 116>>) @@
    ("Alpha.md" :> <<65, 108, 112, 104, 97, 46, 109, 100>>) @@
    ("image.png" :> <<105, 109, 97, 103, 101, 46, 112, 110, 103>>) @@
    ("N.MD" :> <<78, 46, 77, 68>>) @@
    ("Makefile" :> <<77, 97, 107, 101, 102, 105, 108, 101>>) @@
    ("claude" :> <<99, 108, 97, 117, 100, 101>>) @@
    ("config" :> <<99, 111, 110, 102, 105, 103>>) @@
    ("kilocode" :> <<107, 105, 108, 111, 99, 111, 100, 101>>) @@
    ("p" :> <<112>>) @@
    (".skillhub" :> <<46, 115, 107, 105, 108, 108, 104, 117, 98>>) @@
    ("config.json" :> <<99, 111, 110, 102, 105, 103, 46, 106, 115, 111, 110>>) @@
    (".zshrc" :> <<46, 122, 115, 104, 114, 99>>) @@
    (".bashrc" :> <<46, 98, 97, 115, 104, 114, 99>>) @@
    (".bash_profile" :> <<46, 98, 97, 115, 104, 95, 112, 114, 111, 102, 105, 108, 101>>) @@
    (".profile" :> <<46, 112, 114, 111, 102, 105, 108, 101>>) @@
    ("" :> <<>>)

Names == DOMAIN NameCodes
Codes(name) == NameCodes[name]
\* The name with the given characters.
NameOf(cs) == CHOOSE n \in Names : NameCodes[n] = cs

\* str::starts_with('.')
StartsWithDot(name) == Codes(name) # <<>> /\ Codes(name)[1] = 46

\* Path::extension of a path whose last component is name: what follows the
\* last '.', unless the name has none, or only a leading one, or is "..".
Extension(name) ==
    LET cs == Codes(name)
        dots == {i \in 1..Len(cs) : cs[i] = 46}
        k == CHOOSE i \in dots : \A j \in dots : j <= i
    IN  IF dots = {} \/ name = ".." THEN [some |-> FALSE, ext |-> <<>>]
        ELSE IF k = 1 THEN [some |-> FALSE, ext |-> <<>>]
        ELSE [some |-> TRUE, ext |-> SubSeq(cs, k + 1, Len(cs))]

(***************************************************************************)
(* Bytes and strings: String::from_utf8 and str::as_bytes.                 *)
(***************************************************************************)
IsCont(b) == b >= 128 /\ b <= 191

\* Length of the well-formed UTF-8 sequence starting at bs[i], 0 if ill-formed.
Utf8Len(bs, i) ==
    LET b == bs[i]
        n == Len(bs)
        c(k) == i + k <= n /\ IsCont(bs[i + k])
    IN  IF b < 128 THEN 1
        ELSE IF b >= 194 /\ b <= 223 /\ c(1) THEN 2
        ELSE IF b = 224 /\ c(1) /\ bs[i + 1] >= 160 /\ c(2) THEN 3
        ELSE IF b = 237 /\ c(1) /\ bs[i + 1] <= 159 /\ c(2) THEN 3
        ELSE IF b >= 225 /\ b <= 239 /\ b # 237 /\ c(1) /\ c(2) THEN 3
        ELSE IF b = 240 /\ c(1) /\ bs[i + 1] >= 144 /\ c(2) /\ c(3) THEN 4
        ELSE IF b >= 241 /\ b <= 243 /\ c(1) /\ c(2) /\ c(3) THEN 4
        ELSE IF b = 244 /\ c(1) /\ bs[i + 1] <= 143 /\ c(2) /\ c(3) THEN 4
        ELSE 0

Utf8Scalar(bs, i, k) ==
    IF k = 1 THEN bs[i]
    ELSE IF k = 2 THEN (bs[i] - 192) * 64 + (bs[i + 1] - 128)
    ELSE IF k = 3 THEN (bs[i] - 224) * 4096 + (bs[i + 1] - 128) * 64
                        + (bs[i + 2] - 128)
    ELSE (bs[i] - 240) * 262144 + (bs[i + 1] - 128) * 4096
          + (bs[i + 2] - 128) * 64 + (bs[i + 3] - 128)

\* The bytes are well-formed UTF-8: a sequence starts at every byte that is
\* no continuation byte, and every continuation byte belongs to the sequence
\* that starts up to three bytes before it.
Utf8WellFormed(bs) ==
    \A i \in 1..Len(bs) :
        IF IsCont(bs[i])
        THEN \E d \in 1..3 :
                /\ i - d >= 1
                /\ ~IsCont(bs[i - d])
                /\ \A e \in 1..(d - 1) : IsCont(bs[i - e])
                /\ Utf8Len(bs, i - d) > d
        ELSE Utf8Len(bs, i) > 0

\* String::from_utf8: [ok, s], s the scalar values of the bytes.
from_utf8(bs) ==
    LET IsStart(i) == ~IsCont(bs[i])
        starts == SelectSeq([i \in 1..Len(bs) |-> i], IsStart)
    IN  IF Utf8WellFormed(bs)
        THEN [ok |-> TRUE,
              s |-> [k \in 1..Len(starts) |->
                        Utf8Scalar(bs, starts[k], Utf8Len(bs, starts[k]))]]
        ELSE [ok |-> FALSE, s |-> <<>>]

EncodeScalar(c) ==
    IF c < 128 THEN <<c>>
    ELSE IF c < 2048 THEN <<192 + (c \div 64), 128 + (c % 64)>>
    ELSE IF c < 65536 THEN
        <<224 + (c \div 4096), 128 + ((c \div 64) % 64), 128 + (c % 64)>>
    ELSE <<240 + (c \div 262144), 128 + ((c \div 4096) % 64),
           128 + ((c \div 64) % 64), 128 + (c % 64)>>

RECURSIVE as_bytes(_)
\* str::as_bytes: the encodings of the characters, one after the other.
as_bytes(s) ==
    IF s = <<>> THEN <<>>
    ELSE IF Len(s) = 1 THEN EncodeScalar(s[1])
    ELSE LET h == Len(s) \div 2
         IN  as_bytes(SubSeq(s, 1, h)) \o as_bytes(SubSeq(s, h + 1, Len(s)))

\* The hash is a function of the raw bytes only.
Sha256(bs) == [sha256 |-> bs]

(***************************************************************************)
(* Path strings.                                                           *)
(***************************************************************************)
Sep == "/"

RECURSIVE Components(_)
\* The components of a path string: the tokens between separators.
Components(str) ==
    IF str = <<>> THEN <<>>
    ELSE IF Head(str) = Sep THEN Components(Tail(str))
    ELSE <<Head(str)>> \o Components(Tail(str))

IsAbsolute(str) == str # <<>> /\ Head(str) = Sep

RECURSIVE Walk(_, _)
\* Resolution of components from an absolute path: "." stays, ".." goes up.
Walk(base, comps) ==
    IF comps = <<>> THEN base
    ELSE IF Head(comps) = "." THEN Walk(base, Tail(comps))
    ELSE IF Head(comps) = ".." THEN
        Walk(IF base = <<>> THEN <<>> ELSE Front(base), Tail(comps))
    ELSE Walk(Append(base, Head(comps)), Tail(comps))

\* Path::join followed by the lookup of the joined path: an absolute argument
\* replaces the base.
Join(base, str) ==
    Walk(IF IsAbsolute(str) THEN <<>> ELSE base, Components(str))

RECURSIVE PathString(_)
\* to_string_lossy of a relative path: its names separated by "/".
PathString(rel) ==
    IF rel = <<>> THEN <<>>
    ELSE IF Len(rel) = 1 THEN rel
    ELSE <<Head(rel), Sep>> \o PathString(Tail(rel))

\* Path::strip_prefix.
StripPrefix(p, root) == SubSeq(p, Len(root) + 1, Len(p))

(***************************************************************************)
(* The filesystem and the std::fs / tokio::fs calls the code makes.        *)
(***************************************************************************)
Dir == [kind |-> "dir", data |-> <<>>]
File(bs) == [kind |-> "file", data |-> bs]
\* A regular file the process may neither read nor write (mode 000).
NoAccess(bs) == [kind |-> "file", data |-> bs, mode |-> 0]

Exists(f, p) == p \in DOMAIN f
IsDir(f, p) == p \in DOMAIN f /\ f[p].kind = "dir"
IsFile(f, p) == p \in DOMAIN f /\ f[p].kind = "file"
Readable(f, p) == IsFile(f, p) /\ "mode" \notin DOMAIN f[p]
Prefixes(p) == {SubSeq(p, 1, k) : k \in 0..Len(p)}
Children(f, p) == {q \in DOMAIN f : Len(q) = Len(p) + 1 /\ IsPrefix(p, q)}
FileName(p) == Last(p)

Put(f, p, e) == [q \in DOMAIN f \cup {p} |-> IF q = p THEN e ELSE f[q]]
Drop(f, P) == [q \in DOMAIN f \ P |-> f[q]]

\* A create_dir_all that fails when the directory is there already.
create_dir_new(f, p) ==
    IF Exists(f, p) \/ \E q \in Prefixes(p) : IsFile(f, q)
    THEN [ok |-> FALSE, fs |-> f]
    ELSE [ok |-> TRUE,
          fs |-> [q \in DOMAIN f \cup Prefixes(p) |->
                    IF q \in DOMAIN f THEN f[q] ELSE Dir]]

\* fs::create_dir_all: fails, creating nothing, when the path or one of its
\* ancestors is a file.
create_dir_all(f, p) ==
    IF \E q \in Prefixes(p) : IsFile(f, q)
    THEN [ok |-> FALSE, fs |-> f]
    ELSE [ok |-> TRUE,
          fs |-> [q \in DOMAIN f \cup Prefixes(p) |->
                    IF q \in DOMAIN f THEN f[q] ELSE Dir]]

\* fs::write: creates or truncates the file; fails on a directory or when the
\* parent is no directory.
write(f, p, bs) ==
    IF p = <<>> \/ IsDir(f, p) \/ ~IsDir(f, Front(p)) \/ (IsFile(f, p) /\ ~Readable(f, p))
    THEN [ok |-> FALSE, fs |-> f]
    ELSE [ok |-> TRUE, fs |-> Put(f, p, File(bs))]

\* fs::remove_file.
remove_file(f, p) ==
    IF IsFile(f, p) THEN [ok |-> TRUE, fs |-> Drop(f, {p})]
    ELSE [ok |-> FALSE, fs |-> f]

\* A remove_dir_all that removes only an empty directory.
remove_dir_all_only_empty(f, p) ==
    IF IsDir(f, p) /\ p # <<>> /\ Children(f, p) = {}
    THEN [ok |-> TRUE, fs |-> Drop(f, {p})]
    ELSE [ok |-> FALSE, fs |-> f]

\* fs::remove_dir_all.
remove_dir_all(f, p) ==
    IF IsDir(f, p) /\ p # <<>>
    THEN [ok |-> TRUE, fs |-> Drop(f, {q \in DOMAIN f : IsPrefix(p, q)})]
    ELSE [ok |-> FALSE, fs |-> f]

\* A remove_dir that removes a directory with what it holds.
remove_dir_forced(f, p) ==
    IF IsDir(f, p) /\ p # <<>>
    THEN [ok |-> TRUE, fs |-> Drop(f, {q \in DOMAIN f : IsPrefix(p, q)})]
    ELSE [ok |-> FALSE, fs |-> f]

\* fs::remove_dir: only an empty directory.
remove_dir(f, p) ==
    IF IsDir(f, p) /\ p # <<>> /\ Children(f, p) = {}
    THEN [ok |-> TRUE, fs |-> Drop(f, {p})]
    ELSE [ok |-> FALSE, fs |-> f]

(***************************************************************************)
(* sync.rs                                                                 *)
(***************************************************************************)
SKIP_FILES == {".git", ".DS_Store", ".skillhub.json", ".gitignore", "Thumbs.db"}

\* A should_skip that skips every dot name as well.
should_skip_dotted(name) == StartsWithDot(name) \/ name \in SKIP_FILES

should_skip(name) ==
    (StartsWithDot(name) /\ name \in SKIP_FILES) \/ name = "Thumbs.db"

\* The paths the recursive walks of sync.rs visit below root: those with no
\* skipped name on the way.
Visited(f, root) ==
    {p \in DOMAIN f :
        /\ IsPrefix(root, p) /\ p # root
        /\ \A i \in (Len(root) + 1)..Len(p) : ~should_skip(p[i])}

\* A SyncFile whose size counts the characters of the text.
SyncFileOfChars(root, p, bs) ==
    [filepath |-> PathString(StripPrefix(p, root)),
     content |-> from_utf8(bs).s,
     content_hash |-> Sha256(bs),
     file_size |-> Len(from_utf8(bs).s)]

SyncFile(root, p, bs) ==
    [filepath |-> PathString(StripPrefix(p, root)),
     content |-> from_utf8(bs).s,
     content_hash |-> Sha256(bs),
     file_size |-> Len(bs)]

\* The files collect_files_recursive pushes, as a set (the order is that of
\* the directory enumeration).
collect_files_recursive(f, root) ==
    {SyncFile(root, p, f[p].data) :
        p \in {q \in Visited(f, root) : Readable(f, q) /\ from_utf8(f[q].data).ok}}

\* A failed read_dir (the root is no directory) or a failed fs::read of a
\* visited regular file ends the walk with the error.
collect_files(f, root) ==
    IF ~Exists(f, root) THEN [ok |-> FALSE, files |-> {}]
    ELSE IF ~IsDir(f, root) THEN [ok |-> FALSE, files |-> {}]
    ELSE IF \E q \in Visited(f, root) : IsFile(f, q) /\ ~Readable(f, q)
    THEN [ok |-> FALSE, files |-> {}]
    ELSE [ok |-> TRUE, files |-> collect_files_recursive(f, root)]

\* A listing that finds no file.
collect_no_files(f, root) == {}

\* The relative path strings collect_existing_files pushes.
collect_existing_files(f, root) ==
    {PathString(StripPrefix(p, root)) : p \in {q \in Visited(f, root) : IsFile(f, q)}}

RECURSIVE WriteIncoming(_, _, _)
\* The write loop of write_files: stops at the first failure, keeping what
\* was written before it.
WriteIncoming(f, root, files) ==
    IF files = <<>> THEN [ok |-> TRUE, fs |-> f]
    ELSE LET file_path == Join(root, Head(files).filepath)
             d == IF file_path = <<>> THEN [ok |-> TRUE, fs |-> f]
                  ELSE create_dir_all(f, Front(file_path))
         IN  IF ~d.ok THEN d
             ELSE LET w == write(d.fs, file_path, as_bytes(Head(files).content))
                  IN  IF ~w.ok THEN w
                      ELSE WriteIncoming(w.fs, root, Tail(files))

\* The cleanup loop of write_files: remove_file's failure is ignored.
CleanRemoved(f, root, incoming_paths) ==
    Drop(f, {Join(root, e) :
                e \in {x \in collect_existing_files(f, root) :
                          x \notin incoming_paths}})

write_files(f, root, files) ==
    LET c == create_dir_all(f, root)
    IN  IF ~c.ok THEN c
        ELSE LET incoming_paths == {files[i].filepath : i \in 1..Len(files)}
                 w == WriteIncoming(c.fs, root, files)
             IN  IF ~w.ok THEN w
                 ELSE [ok |-> TRUE, fs |-> CleanRemoved(w.fs, root, incoming_paths)]

(***************************************************************************)
(* Calls and their record in the state.                                    *)
(***************************************************************************)
NoCall == [name |-> "none"]
NoPrev == [op |-> NoCall, res |-> [ok |-> TRUE]]

\* The state after a call that leaves the filesystem f and returns r.
Called(call, r, f) ==
    /\ nops < MaxOps
    /\ fs' = f
    /\ op' = call
    /\ res' = r
    /\ pre' = fs
    /\ prev' = [op |-> op, res |-> res]
    /\ nops' = nops + 1
    /\ procs' = procs

Start(f) ==
    /\ fs = f
    /\ op = NoCall
    /\ res = [ok |-> TRUE]
    /\ pre = f
    /\ prev = NoPrev
    /\ nops = 0
    /\ procs = <<>>

\* A filesystem from a set of <<path, entry>> pairs, with the directories above
\* each path.
Mk(entries) ==
    LET paths == {e[1] : e \in entries}
        all == UNION {Prefixes(p) : p \in paths}
    IN  [p \in all |-> IF p \in paths
                       THEN (CHOOSE e \in entries : e[1] = p)[2]
                       ELSE Dir]

(***************************************************************************)
(* The sync engine on a working directory.                                 *)
(***************************************************************************)
SyncRoot == <<"w", "s">>
SyncDst == <<"w", "d">>

\* File data: "A", "e-acute" in UTF-8, a byte that is no UTF-8, the empty file.
TextDatas == {<<65>>, <<195, 169>>, <<>>}
BinaryDatas == {<<255>>, <<195>>}
Datas == TextDatas \cup BinaryDatas

\* Rust strings: "A" and "e-acute".
Contents == {<<65>>, <<233>>}

\* Incoming relative paths: a, b, a/b, ./a, ../x, /x.
PlainPaths == {<<"a">>, <<"b">>, <<"a", Sep, "b">>}
IncomingPaths ==
    PlainPaths \cup {<<".", Sep, "a">>, <<"..", Sep, "x">>, <<Sep, "x">>}

Incoming == [filepath : IncomingPaths, content : Contents]

\* Working directories a mirror write may find: none, an empty one, one that
\* holds a sidecar, a version-control directory, a binary and a text file.
MirrorSeeds ==
    {Mk({<<<<"w">>, Dir>>}),
     Mk({<<SyncRoot, Dir>>}),
     Mk({<<SyncRoot \o <<".skillhub.json">>, File(<<65>>)>>,
         <<SyncRoot \o <<".git", "c">>, File(<<65>>)>>,
         <<SyncRoot \o <<"bin">>, File(<<255>>)>>,
         <<SyncRoot \o <<"old">>, File(<<65>>)>>})}

WriteFiles(root, files) ==
    LET r == write_files(fs, root, files)
    IN  Called([name |-> "write_files", root |-> root, files |-> files],
               [ok |-> r.ok], r.fs)

InitMirror == \E f \in MirrorSeeds : Start(f)
NextMirror == \E files \in SeqsUpTo(Incoming, MaxFiles) : WriteFiles(SyncRoot, files)
SpecMirror == InitMirror /\ [][NextMirror]_vars

(***************************************************************************)
(* What a directory holds, and what an incoming set asks for.              *)
(***************************************************************************)
\* No name on the way from root to p is in the ignore set.
NonIgnored(p, root) ==
    \A i \in (Len(root) + 1)..Len(p) : p[i] \notin SKIP_FILES

\* The (relative path, data) pairs of the non-ignored regular files below root.
FileSet(f, root) ==
    {<<StripPrefix(p, root), f[p].data>> :
        p \in {q \in DOMAIN f : /\ IsPrefix(root, q) /\ q # root
                                /\ IsFile(f, q) /\ NonIgnored(q, root)}}

\* The relative path a path string names.
RelPath(str) == Walk(<<>>, Components(str))

\* The (relative path, data) pairs an incoming sequence stands for.
Wanted(files) ==
    {<<RelPath(files[i].filepath), as_bytes(files[i].content)>> : i \in 1..Len(files)}

\* An incoming sequence is a file set below the root: relative paths that stay
\* below it, use no ignored name, are pairwise distinct, and none is a
\* directory above another.
IsFileSetBelow(files) ==
    /\ \A i \in 1..Len(files) :
        LET str == files[i].filepath
        IN  /\ ~IsAbsolute(str)
            /\ \A k \in 1..Len(str) : str[k] # ".." /\ str[k] \notin SKIP_FILES
            /\ RelPath(str) # <<>>
    /\ \A i, j \in 1..Len(files) :
        i # j => ~IsPrefix(RelPath(files[i].filepath), RelPath(files[j].filepath))

SecondWrite ==
    /\ op.name = "write_files"
    /\ prev.op.name = "write_files"
    /\ op.root = prev.op.root
    /\ IsFileSetBelow(prev.op.files)
    /\ IsFileSetBelow(op.files)

\* C1 (mirror law): a write_files of a file set S2 that follows a write_files
\* of a file set S1 on the same root succeeds and leaves exactly S2's files
\* below the root.
C1_MirrorLaw ==
    SecondWrite => res.ok /\ FileSet(fs, op.root) = Wanted(op.files)

(***************************************************************************)
(* collect_files of a source tree, written back by write_files.            *)
(***************************************************************************)
\* Source trees: an entry a (a file, or a directory that may hold a file b),
\* a dot file that is not ignored, and ignored entries (.git with a file in
\* it, Thumbs.db).
TreeA ==
    {{}} \cup {{<<SyncRoot \o <<"a">>, File(d)>>} : d \in Datas}
         \cup {{<<SyncRoot \o <<"a">>, Dir>>}}
         \cup {{<<SyncRoot \o <<"a", "b">>, File(d)>>} : d \in Datas}
TreeEnv == {{}, {<<SyncRoot \o <<".env">>, File(<<65>>)>>}}
TreeGit == {{}, {<<SyncRoot \o <<".git", "c">>, File(<<65>>)>>}}
TreeThumbs == {{}, {<<SyncRoot \o <<"Thumbs.db">>, File(<<255>>)>>}}
TreeDst == {{}, {<<SyncDst, Dir>>}}

SourceTrees ==
    {Mk({<<<<"w">>, Dir>>} \cup d) : d \in TreeDst} \cup
    {Mk({<<SyncRoot, Dir>>} \cup a \cup e \cup g \cup t \cup d) :
        a \in TreeA, e \in TreeEnv, g \in TreeGit, t \in TreeThumbs, d \in TreeDst}

CollectFiles(root) ==
    LET r == collect_files(fs, root)
    IN  Called([name |-> "collect_files", root |-> root], r, fs)

\* write_files of what the collect_files just before returned, the Vec being
\* in the order the directory enumeration gave.
WriteCollected(root) ==
    /\ op.name = "collect_files"
    /\ res.ok
    /\ \E files \in Perms(res.files) :
        LET r == write_files(fs, root, files)
        IN  Called([name |-> "write_collected", root |-> root, src |-> op.root,
                    files |-> files],
                   [ok |-> r.ok], r.fs)

InitRoundTrip == \E f \in SourceTrees : Start(f)
NextRoundTrip == CollectFiles(SyncRoot) \/ WriteCollected(SyncDst)
SpecRoundTrip == InitRoundTrip /\ [][NextRoundTrip]_vars

\* The regular files of src that collect_files is to return, or to leave out
\* as binary.
SyncedFiles(f, src, text) ==
    {p \in DOMAIN f : /\ IsPrefix(src, p) /\ p # src /\ IsFile(f, p)
                      /\ NonIgnored(p, src)
                      /\ from_utf8(f[p].data).ok = text}

\* C2 (round trip): after collect_files(src) and write_files(dst, result) into
\* an empty dst, every non-ignored UTF-8 file of src is in dst at the same
\* relative path with the same bytes, and no binary file of src is in dst.
C2_RoundTrip ==
    op.name = "write_collected" =>
        /\ res.ok
        /\ \A p \in SyncedFiles(fs, op.src, TRUE) :
            LET q == op.root \o StripPrefix(p, op.src)
            IN  IsFile(fs, q) /\ fs[q].data = fs[p].data
        /\ \A p \in SyncedFiles(fs, op.src, FALSE) :
            ~Exists(fs, op.root \o StripPrefix(p, op.src))

\* A round trip of a tree that holds a text file in a subdirectory, a dot
\* file, an ignored directory and a binary file.
C2_Witness ==
    /\ op.name = "write_collected"
    /\ res.ok
    /\ IsFile(pre, op.src \o <<"a", "b">>)
    /\ pre[op.src \o <<"a", "b">>].data = <<195, 169>>
    /\ IsFile(pre, op.src \o <<".env">>)
    /\ IsFile(pre, op.src \o <<".git", "c">>)
    /\ IsFile(pre, op.src \o <<"Thumbs.db">>)
    /\ IsFile(fs, op.root \o <<"a", "b">>)

(***************************************************************************)
(* tools.rs: the registry.                                                 *)
(***************************************************************************)
ToolConfig(id, name, config_paths, primary_subpath, all_subpaths) ==
    [id |-> id, name |-> name, config_paths |-> config_paths,
     primary_subpath |-> primary_subpath, all_subpaths |-> all_subpaths]

SUPPORTED_TOOLS == <<
    ToolConfig("claude", "Claude Code", <<<<".claude">>>>, "skills", <<"skills">>),
    ToolConfig("codex", "Codex (OpenAI)", <<<<".codex">>>>, "skills", <<"skills">>),
    ToolConfig("cursor", "Cursor", <<<<".cursor">>>>, "skills", <<"skills">>),
    ToolConfig("cline", "Cline", <<<<".cline">>>>, "skills", <<"skills">>),
    ToolConfig("opencode", "OpenCode", <<<<".config", Sep, "opencode">>>>,
               "skills", <<"skills">>),
    ToolConfig("gemini", "Gemini CLI", <<<<".gemini">>>>, "skills", <<"skills">>),
    ToolConfig("kilocode", "Kilo Code", <<<<".kilocode">>, <<".kilo">>>>,
               "skills", <<"skills", "skills-code", "skills-architect">>),
    ToolConfig("copilot", "GitHub Copilot", <<<<".copilot">>>>, "skills", <<"skills">>),
    ToolConfig("windsurf", "Windsurf",
               <<<<".windsurf">>, <<".codeium", Sep, "windsurf">>>>,
               "rules", <<"rules">>),
    ToolConfig("roocode", "RooCode", <<<<".roo">>, <<".roocode">>>>,
               "skills", <<"skills">>),
    ToolConfig("aider", "Aider", <<<<".aider">>>>, "skills", <<"skills">>),
    ToolConfig("augment", "Augment", <<<<".augment">>>>, "skills", <<"skills">>),
    ToolConfig("kiro", "AWS Kiro", <<<<".kiro">>>>, "skills", <<"skills">>),
    ToolConfig("zencoder", "Zencoder", <<<<".zencoder">>>>, "skills", <<"skills">>),
    ToolConfig("zed", "Zed", <<<<".zed">>>>, "rules", <<"rules">>) >>

ToolIndexes == 1..Len(SUPPORTED_TOOLS)
ToolIds == {SUPPORTED_TOOLS[i].id : i \in ToolIndexes}

\* A find that falls back to the first tool for an unknown id.
FindToolOrFirst(tool_id) ==
    [some |-> TRUE,
     tool |-> IF \E i \in ToolIndexes : SUPPORTED_TOOLS[i].id = tool_id
              THEN SUPPORTED_TOOLS[CHOOSE i \in ToolIndexes :
                      SUPPORTED_TOOLS[i].id = tool_id]
              ELSE SUPPORTED_TOOLS[1]]

\* SUPPORTED_TOOLS.iter().find(|t| t.id == tool_id)
FindTool(tool_id) ==
    IF tool_id \in ToolIds
    THEN [some |-> TRUE,
          tool |-> SUPPORTED_TOOLS[CHOOSE i \in ToolIndexes :
                     /\ SUPPORTED_TOOLS[i].id = tool_id
                     /\ \A j \in 1..(i - 1) : SUPPORTED_TOOLS[j].id # tool_id]]
    ELSE [some |-> FALSE, tool |-> SUPPORTED_TOOLS[1]]

\* dirs::home_dir()
get_home_dir == <<"h">>

\* PathBuf::join of one name: joining the empty string leaves the path.
JoinName(base, name) == IF name = "" THEN base ELSE Append(base, name)

(***************************************************************************)
(* tools.rs: discovery.                                                    *)
(***************************************************************************)
\* path.extension().map(|e| e == "md").unwrap_or(false)
HasMdExtension(name) == Extension(name).some /\ Extension(name).ext = <<109, 100>>

CountsAsSkill(f, path) ==
    IF IsDir(f, path) THEN Exists(f, Append(path, "SKILL.md"))
    ELSE HasMdExtension(FileName(path))

count_skills_in_dir(f, dir) ==
    IF ~IsDir(f, dir) THEN 0
    ELSE Cardinality({path \in Children(f, dir) :
                        ~StartsWithDot(FileName(path)) /\ CountsAsSkill(f, path)})

count_skills(f, skills_dir) == count_skills_in_dir(f, skills_dir)

\* A count that stops at the first skill subpath that exists.
SumFirstSubpath(f, config_dir, subpaths) ==
    LET hits == {k \in 1..Len(subpaths) : Exists(f, JoinName(config_dir, subpaths[k]))}
    IN  IF hits = {} THEN 0
        ELSE count_skills(f, JoinName(config_dir,
                                      subpaths[CHOOSE k \in hits : \A j \in hits : k <= j]))

RECURSIVE SumSubpaths(_, _, _)
\* The loop over tool.all_subpaths: the counts of the directories that exist.
SumSubpaths(f, config_dir, subpaths) ==
    IF subpaths = <<>> THEN 0
    ELSE LET skills_dir == JoinName(config_dir, Head(subpaths))
         IN  (IF Exists(f, skills_dir) THEN count_skills(f, skills_dir) ELSE 0)
             + SumSubpaths(f, config_dir, Tail(subpaths))

PrimaryDir(tool, config_dir) ==
    IF tool.primary_subpath = "." THEN config_dir
    ELSE JoinName(config_dir, tool.primary_subpath)

DetectedTool(tool, config_dir, installed, count) ==
    [name |-> tool.name, id |-> tool.id, config_path |-> config_dir,
     skills_path |-> PrimaryDir(tool, config_dir),
     installed |-> installed, skills_count |-> count]

\* The index of the last config path of the tool that exists, 0 if none does.
LastExisting(f, tool) ==
    LET hits == {k \in 1..Len(tool.config_paths) :
                    Exists(f, Join(get_home_dir, tool.config_paths[k]))}
    IN  IF hits = {} THEN 0 ELSE CHOOSE k \in hits : \A j \in hits : k >= j

\* The index of the first config path of the tool that exists, 0 if none does.
FirstExisting(f, tool) ==
    LET hits == {k \in 1..Len(tool.config_paths) :
                    Exists(f, Join(get_home_dir, tool.config_paths[k]))}
    IN  IF hits = {} THEN 0 ELSE CHOOSE k \in hits : \A j \in hits : k <= j

\* The resolved config directory of a tool, when one exists.
ResolvedConfigDir(f, tool) ==
    Join(get_home_dir, tool.config_paths[FirstExisting(f, tool)])

RECURSIVE DetectInstalled(_, _)
\* The first loop of detect_all_tools, over the tools from index i on.
DetectInstalled(f, i) ==
    IF i > Len(SUPPORTED_TOOLS) THEN <<>>
    ELSE LET tool == SUPPORTED_TOOLS[i]
         IN  (IF FirstExisting(f, tool) = 0 THEN <<>>
              ELSE LET config_dir == ResolvedConfigDir(f, tool)
                   IN  <<DetectedTool(tool, config_dir, TRUE,
                            SumSubpaths(f, config_dir, tool.all_subpaths))>>)
             \o DetectInstalled(f, i + 1)

RECURSIVE DetectAvailable(_, _, _)
\* The second loop of detect_all_tools: the tools not detected yet.
DetectAvailable(f, detected, i) ==
    IF i > Len(SUPPORTED_TOOLS) THEN detected
    ELSE LET tool == SUPPORTED_TOOLS[i]
         IN  DetectAvailable(f,
                IF \E k \in 1..Len(detected) : detected[k].id = tool.id
                THEN detected
                ELSE Append(detected,
                        DetectedTool(tool, Join(get_home_dir, tool.config_paths[1]),
                                     FALSE, 0)),
                i + 1)

detect_all_tools(f) ==
    [ok |-> TRUE, tools |-> DetectAvailable(f, DetectInstalled(f, 1), 1)]

(***************************************************************************)
(* tools.rs: the folder name of a skill.  A skill name is a string, a       *)
(* sequence of characters.                                                 *)
(***************************************************************************)
\* A to_lowercase that changes nothing.
ToLowerNot(c) == c

\* char::to_lowercase, for ASCII and Latin-1 letters.
ToLower(c) ==
    IF c >= 65 /\ c <= 90 THEN c + 32
    ELSE IF c >= 192 /\ c <= 222 /\ c # 215 THEN c + 32
    ELSE c

\* char::is_alphanumeric, for ASCII and Latin-1.
IsAlphanumeric(c) ==
    \/ c >= 48 /\ c <= 57
    \/ c >= 65 /\ c <= 90
    \/ c >= 97 /\ c <= 122
    \/ c >= 192 /\ c <= 255 /\ c # 215 /\ c # 247

\* |c| c.is_alphanumeric() || *c == '-' || *c == '_'
KeepChar(c) == IsAlphanumeric(c) \/ c = 45 \/ c = 95

\* skill_name.to_lowercase().replace(' ', "-").chars().filter(..).collect()
FolderName(skill_name) ==
    LET lower == [i \in 1..Len(skill_name) |-> ToLower(skill_name[i])]
        hyphened == [i \in 1..Len(lower) |-> IF lower[i] = 32 THEN 45 ELSE lower[i]]
    IN  NameOf(SelectSeq(hyphened, KeepChar))

(***************************************************************************)
(* tools.rs: install, uninstall, copy.                                     *)
(***************************************************************************)
\* The directory install_skill_to_tools and install_skill_files_to_tools
\* install into.
InstallSkillsDir(tool) ==
    LET config_dir == Join(get_home_dir, tool.config_paths[1])
    IN  IF tool.primary_subpath = "." THEN config_dir
        ELSE JoinName(config_dir, tool.primary_subpath)

\* One round of the loop of install_skill_to_tools, for a tool of the registry.
InstallOne(f, content, folder_name, tool) ==
    LET skills_dir == InstallSkillsDir(tool)
        a == IF Exists(f, skills_dir) THEN [ok |-> TRUE, fs |-> f]
             ELSE create_dir_all(f, skills_dir)
        skill_dir == JoinName(skills_dir, folder_name)
        skill_file == Append(skill_dir, "SKILL.md")
    IN  IF ~a.ok THEN [ok |-> FALSE, fs |-> a.fs, path |-> skill_file]
        ELSE LET b == create_dir_all(a.fs, skill_dir)
             IN  IF ~b.ok THEN [ok |-> FALSE, fs |-> b.fs, path |-> skill_file]
                 ELSE LET w == write(b.fs, skill_file, as_bytes(content))
                      IN  [ok |-> w.ok, fs |-> w.fs, path |-> skill_file]

RECURSIVE InstallLoop(_, _, _, _, _)
\* The loop over tool_ids: the first unknown id or failed call ends it with an
\* error, what was written before staying.
InstallLoop(f, content, folder_name, tool_ids, installed_paths) ==
    IF tool_ids = <<>>
    THEN [ok |-> TRUE, err |-> "", paths |-> installed_paths, fs |-> f]
    ELSE LET t == FindTool(Head(tool_ids))
         IN  IF ~t.some
             THEN [ok |-> FALSE, err |-> "Unknown tool", paths |-> <<>>, fs |-> f]
             ELSE LET r == InstallOne(f, content, folder_name, t.tool)
                  IN  IF ~r.ok
                      THEN [ok |-> FALSE, err |-> "Failed", paths |-> <<>>, fs |-> r.fs]
                      ELSE InstallLoop(r.fs, content, folder_name, Tail(tool_ids),
                                       Append(installed_paths, r.path))

install_skill_to_tools(f, skill_content, skill_name, tool_ids) ==
    InstallLoop(f, skill_content, FolderName(skill_name), tool_ids, <<>>)

\* An uninstall that reports a path that is neither directory nor file.
uninstall_existing(f, path) ==
    IF IsDir(f, path) THEN remove_dir_all(f, path)
    ELSE IF IsFile(f, path) THEN
        LET r == remove_file(f, path)
        IN  [ok |-> r.ok, fs |-> IF r.ok THEN remove_dir(r.fs, Front(path)).fs ELSE r.fs]
    ELSE [ok |-> FALSE, fs |-> f]

uninstall_skill(f, path) ==
    IF IsDir(f, path) THEN remove_dir_all(f, path)
    ELSE IF IsFile(f, path) THEN
        LET r == remove_file(f, path)
        IN  [ok |-> r.ok, fs |-> IF r.ok THEN remove_dir(r.fs, Front(path)).fs ELSE r.fs]
    ELSE [ok |-> TRUE, fs |-> f]

\* The longest path the operating system accepts, in components.
MaxPathLen == 8

\* A copy that leaves the new file empty.
copy_empty(f, from, to) ==
    IF ~Readable(f, from) THEN [ok |-> FALSE, fs |-> f]
    ELSE write(f, to, <<>>)

\* fs::copy of a regular file.
copy(f, from, to) ==
    IF ~Readable(f, from) THEN [ok |-> FALSE, fs |-> f]
    ELSE write(f, to, f[from].data)

\* An enumeration of the entries of a directory.
RECURSIVE Enumerate(_)
Enumerate(S) ==
    IF S = {} THEN <<>>
    ELSE LET x == CHOOSE y \in S : TRUE IN <<x>> \o Enumerate(S \ {x})

RECURSIVE copy_dir_recursive(_, _, _)
RECURSIVE CopyEntries(_, _, _)
\* The loop of copy_dir_recursive over the entries read from src.
CopyEntries(f, entries, dst) ==
    IF entries = <<>> THEN [ok |-> TRUE, fs |-> f]
    ELSE LET entry_path == Head(entries)
             dest_path == Append(dst, FileName(entry_path))
             r == IF IsDir(f, entry_path)
                  THEN copy_dir_recursive(f, entry_path, dest_path)
                  ELSE copy(f, entry_path, dest_path)
         IN  IF ~r.ok THEN r ELSE CopyEntries(r.fs, Tail(entries), dst)

copy_dir_recursive(f, src, dst) ==
    IF Len(dst) > MaxPathLen THEN [ok |-> FALSE, fs |-> f]
    ELSE LET c == create_dir_all(f, dst)
         IN  IF ~c.ok THEN c
             ELSE CopyEntries(c.fs, Enumerate(Children(c.fs, src)), dst)

\* A copy_skill without the check that the destination exists.
copy_skill_unchecked(f, source, dest_base) ==
    LET c == IF Exists(f, dest_base) THEN [ok |-> TRUE, fs |-> f]
             ELSE create_dir_all(f, dest_base)
    IN  IF ~c.ok THEN [ok |-> FALSE, fs |-> c.fs, path |-> <<>>]
        ELSE IF source = <<>> THEN [ok |-> FALSE, fs |-> c.fs, path |-> <<>>]
        ELSE LET dest_path == Append(dest_base, FileName(source))
                 r == IF IsDir(c.fs, source)
                      THEN copy_dir_recursive(c.fs, source, dest_path)
                      ELSE copy(c.fs, source, dest_path)
             IN  [ok |-> r.ok, fs |-> r.fs, path |-> dest_path]

copy_skill(f, source, dest_base) ==
    LET c == IF Exists(f, dest_base) THEN [ok |-> TRUE, fs |-> f]
             ELSE create_dir_all(f, dest_base)
    IN  IF ~c.ok THEN [ok |-> FALSE, fs |-> c.fs, path |-> <<>>]
        ELSE IF source = <<>> THEN [ok |-> FALSE, fs |-> c.fs, path |-> <<>>]
        ELSE LET dest_path == Append(dest_base, FileName(source))
             IN  IF Exists(c.fs, dest_path)
                 THEN [ok |-> FALSE, fs |-> c.fs, path |-> dest_path]
                 ELSE LET r == IF IsDir(c.fs, source)
                               THEN copy_dir_recursive(c.fs, source, dest_path)
                               ELSE copy(c.fs, source, dest_path)
                      IN  [ok |-> r.ok, fs |-> r.fs, path |-> dest_path]

(***************************************************************************)
(* The skill manager and discovery on a home directory.                    *)
(***************************************************************************)
Home == get_home_dir
Text == File(<<65>>)

\* Home directories: an empty one; one with skills of several shapes under
\* the first and under an alternate config root; one where two config roots
\* of a tool exist and a config path is a regular file.
HomeSeeds ==
    {Mk({<<Home, Dir>>}),
     Mk({<<Home \o <<".claude", "skills", "sk1", "SKILL.md">>, Text>>,
         <<Home \o <<".claude", "skills", ".hidden", "SKILL.md">>, Text>>,
         <<Home \o <<".claude", "skills", "loose.md">>, Text>>,
         <<Home \o <<".claude", "skills", "plain", "notes">>, Text>>,
         <<Home \o <<".kilo", "skills-code", "sk2", "SKILL.md">>, Text>>,
         <<Home \o <<".codeium", "windsurf", "rules", "loose.md">>, Text>>,
         <<Home \o <<"src", "my-skill", "SKILL.md">>, File(<<195, 169>>)>>,
         <<Home \o <<"src", "my-skill", "ref", "notes">>, Text>>,
         <<Home \o <<"dest", "my-skill">>, Dir>>}),
     Mk({<<Home \o <<".kilocode", "skills", "sk1", "SKILL.md">>, Text>>,
         <<Home \o <<".kilocode", "skills-architect", "sk3", "SKILL.md">>, Text>>,
         <<Home \o <<".kilo", "skills", "sk2", "SKILL.md">>, Text>>,
         <<Home \o <<".zed", "rules", "sk1", "SKILL.md">>, Text>>,
         <<Home \o <<".claude">>, Text>>,
         <<Home \o <<"dest", "loose.md">>, Text>>})}

\* "My Skill!", "my-skill", "!!", "A_1"
MySkill == <<77, 121, 32, 83, 107, 105, 108, 108, 33>>
SkillNames == {MySkill, <<109, 121, 45, 115, 107, 105, 108, 108>>, <<33, 33>>, <<65, 95, 49>>}

InstallIds == {"claude", "kilocode", "bogus"}
MaxToolIds == 2

\* Paths handed to uninstall_skill: what exists below the config roots and the
\* home's other directories, and a path that does not exist.
UninstallPaths(f) ==
    {p \in DOMAIN f : IsPrefix(Home, p) /\ Len(p) >= Len(Home) + 3}
        \cup {Home \o <<".claude", "skills", "missing">>}

CopySources ==
    {Home \o <<"src", "my-skill">>,
     Home \o <<".claude", "skills", "sk1">>,
     Home \o <<".claude", "skills", "loose.md">>,
     Home \o <<"src", "missing">>}
CopyDests ==
    {Home \o <<"dest">>, Home \o <<".claude", "skills">>,
     Home \o <<".codex", "skills">>}

DetectAllTools ==
    Called([name |-> "detect_all_tools"], detect_all_tools(fs), fs)

InstallSkillToTools(content, skill_name, tool_ids) ==
    LET r == install_skill_to_tools(fs, content, skill_name, tool_ids)
    IN  Called([name |-> "install_skill_to_tools", content |-> content,
                skill_name |-> skill_name, tool_ids |-> tool_ids],
               [ok |-> r.ok, err |-> r.err, paths |-> r.paths], r.fs)

UninstallSkill(path) ==
    LET r == uninstall_skill(fs, path)
    IN  Called([name |-> "uninstall_skill", path |-> path], [ok |-> r.ok], r.fs)

CopySkill(source, dest_dir) ==
    LET r == copy_skill(fs, source, dest_dir)
    IN  Called([name |-> "copy_skill", source |-> source, dest_dir |-> dest_dir],
               [ok |-> r.ok, path |-> r.path], r.fs)

InitTools == \E f \in HomeSeeds : Start(f)
NextTools ==
    \/ DetectAllTools
    \/ \E content \in Contents, skill_name \in SkillNames,
          tool_ids \in SeqsUpTo(InstallIds, MaxToolIds) :
            InstallSkillToTools(content, skill_name, tool_ids)
    \/ \E path \in UninstallPaths(fs) : UninstallSkill(path)
    \/ \E source \in CopySources, dest_dir \in CopyDests : CopySkill(source, dest_dir)
SpecTools == InitTools /\ [][NextTools]_vars

(***************************************************************************)
(* Claims on the skill manager and discovery.                              *)
(***************************************************************************)
Tools == Range(SUPPORTED_TOOLS)
CandidateDirs(tool) ==
    {Join(Home, tool.config_paths[k]) : k \in 1..Len(tool.config_paths)}

\* The entry of a discovery result for a tool id.
Entry(detected, id) ==
    detected[CHOOSE k \in 1..Len(detected) : detected[k].id = id]
CountOf(f, id) == Entry(detect_all_tools(f).tools, id).skills_count

\* dir lies directly in a scanned skill subpath of the resolved config
\* directory of the tool.
InScannedSubpath(f, dir, tool) ==
    /\ \E c \in CandidateDirs(tool) : Exists(f, c)
    /\ \E k \in 1..Len(tool.config_paths) :
        /\ Exists(f, Join(Home, tool.config_paths[k]))
        /\ \A j \in 1..(k - 1) : ~Exists(f, Join(Home, tool.config_paths[j]))
        /\ \E i \in 1..Len(tool.all_subpaths) :
            Front(dir) = Append(Join(Home, tool.config_paths[k]), tool.all_subpaths[i])

OnlySkillMd(f, dir) ==
    /\ IsDir(f, dir)
    /\ ~StartsWithDot(FileName(dir))
    /\ Children(f, dir) = {Append(dir, "SKILL.md")}

\* C3: uninstall of a non-hidden skill directory that holds only SKILL.md and
\* lies directly in a scanned subpath of a tool's resolved config directory
\* removes the directory; discovery then counts one skill less for that tool
\* and the same number for every other tool.
C3_UninstallDecrements ==
    \A tool \in Tools :
        (/\ op.name = "uninstall_skill"
         /\ OnlySkillMd(pre, op.path)
         /\ InScannedSubpath(pre, op.path, tool))
        => /\ res.ok
           /\ \A p \in DOMAIN fs : ~IsPrefix(op.path, p)
           /\ CountOf(fs, tool.id) = CountOf(pre, tool.id) - 1
           /\ \A other \in Tools :
                other.id # tool.id => CountOf(fs, other.id) = CountOf(pre, other.id)

\* A skill directory under the alternate config root and a second subpath
\* convention was uninstalled.
C3_Witness ==
    /\ op.name = "uninstall_skill"
    /\ op.path = Home \o <<".kilo", "skills-code", "sk2">>
    /\ OnlySkillMd(pre, op.path)
    /\ CountOf(pre, "kilocode") = 1
    /\ CountOf(fs, "kilocode") = 0

SameInstallTwice ==
    /\ op.name = "install_skill_to_tools"
    /\ prev.op.name = "install_skill_to_tools"
    /\ op.skill_name = prev.op.skill_name
    /\ op.tool_ids = prev.op.tool_ids

\* C4: a second install_skill_to_tools with the same name and tools ends as
\* the first did and returns the same paths; it creates no further entry, the
\* files at the returned paths hold the second call's content; the folder of
\* "My Skill!" is "my-skill".
C4_InstallTwice ==
    SameInstallTwice =>
        /\ res.ok = prev.res.ok
        /\ res.ok =>
            /\ res.paths = prev.res.paths
            /\ DOMAIN fs = DOMAIN pre
            /\ \A k \in 1..Len(res.paths) :
                /\ IsFile(fs, res.paths[k])
                /\ fs[res.paths[k]].data = as_bytes(op.content)
                /\ op.skill_name = MySkill =>
                    res.paths[k][Len(res.paths[k]) - 1] = "my-skill"

\* "My Skill!" was installed twice for a tool, with different contents.
C4_Witness ==
    /\ SameInstallTwice
    /\ res.ok
    /\ op.skill_name = MySkill
    /\ op.tool_ids = <<"kilocode">>
    /\ op.content # prev.op.content
    /\ fs[res.paths[1]].data = as_bytes(op.content)

\* C5: copy_skill fails when dest_dir holds an entry with the name of the
\* source's last component, and then changes nothing.
C5_CopyCollision ==
    (/\ op.name = "copy_skill"
     /\ op.source # <<>>
     /\ Exists(pre, Append(op.dest_dir, FileName(op.source))))
    => ~res.ok /\ fs = pre

\* A copy of an existing skill directory into a directory that holds an entry
\* of that name.
C5_Witness ==
    /\ op.name = "copy_skill"
    /\ IsDir(pre, op.source)
    /\ IsDir(pre, Append(op.dest_dir, FileName(op.source)))
    /\ ~res.ok

\* C8: detect_all_tools succeeds with one entry per tool of the registry; a
\* tool is installed iff one of its candidate config roots exists, its config
\* path then being the first that exists; otherwise the entry has installed
\* = FALSE, count 0 and the first candidate as config path.
C8_DetectAll ==
    op.name = "detect_all_tools" =>
        /\ res.ok
        /\ Len(res.tools) = Len(SUPPORTED_TOOLS)
        /\ \A tool \in Tools :
            LET hits == {k \in 1..Len(res.tools) : res.tools[k].id = tool.id}
                first(k) == Join(Home, tool.config_paths[k])
            IN  /\ Cardinality(hits) = 1
                /\ \A h \in hits :
                    LET d == res.tools[h]
                    IN  /\ d.installed <=> \E c \in CandidateDirs(tool) : Exists(fs, c)
                        /\ d.installed =>
                            \E k \in 1..Len(tool.config_paths) :
                                /\ d.config_path = first(k)
                                /\ Exists(fs, first(k))
                                /\ \A j \in 1..(k - 1) : ~Exists(fs, first(j))
                        /\ ~d.installed =>
                            /\ d.skills_count = 0
                            /\ d.config_path = first(1)

\* A discovery with a tool whose two config roots both exist, a tool resolved
\* by its second config root only, and a tool that is not installed.
C8_Witness ==
    /\ op.name = "detect_all_tools"
    /\ Exists(fs, Home \o <<".kilocode">>)
    /\ Exists(fs, Home \o <<".kilo">>)
    /\ Exists(fs, Home \o <<".codeium", "windsurf">>)
    /\ ~Exists(fs, Home \o <<".windsurf">>)
    /\ Entry(res.tools, "kilocode").config_path = Home \o <<".kilocode">>
    /\ Entry(res.tools, "windsurf").installed
    /\ ~Entry(res.tools, "zed").installed

\* The folder names the skill names of the model are to give.
ExpectedFolder(skill_name) ==
    IF skill_name = MySkill THEN "my-skill"
    ELSE IF skill_name = <<109, 121, 45, 115, 107, 105, 108, 108>> THEN "my-skill"
    ELSE IF skill_name = <<65, 95, 49>> THEN "a_1"
    ELSE ""

\* <home>/<first config path>/<primary subpath> of the registry's tool id.
PrimarySkillDir(id) ==
    LET tool == CHOOSE t \in Tools : t.id = id
    IN  Append(Join(Home, tool.config_paths[1]), tool.primary_subpath)

\* <primary skill directory>/<slug>/SKILL.md
TargetFile(id, skill_name) ==
    Append(JoinName(PrimarySkillDir(id), ExpectedFolder(skill_name)), "SKILL.md")

Unknown(tool_ids) == {k \in 1..Len(tool_ids) : tool_ids[k] \notin ToolIds}

\* One path per requested tool, in input order, each the target file of the
\* tool, which holds the content.
ReturnsTargets ==
    /\ res.ok
    /\ Len(res.paths) = Len(op.tool_ids)
    /\ \A k \in 1..Len(op.tool_ids) :
        /\ res.paths[k] = TargetFile(op.tool_ids[k], op.skill_name)
        /\ IsFile(fs, res.paths[k])
        /\ fs[res.paths[k]].data = as_bytes(op.content)

\* C9 as stated: install_skill_to_tools fails with the unknown-tool error if
\* an id is not in the registry, and otherwise returns the target files.
C9_AsStated ==
    op.name = "install_skill_to_tools" =>
        IF Unknown(op.tool_ids) # {}
        THEN ~res.ok /\ res.err = "Unknown tool"
        ELSE ReturnsTargets

\* A file stands where the install for the tool needs a directory, or a
\* directory where it writes SKILL.md.
Blocked(f, id, skill_name) ==
    \/ \E q \in Prefixes(Front(TargetFile(id, skill_name))) : IsFile(f, q)
    \/ IsDir(f, TargetFile(id, skill_name))

\* C9, amended: the call fails if an id is unknown, with the unknown-tool
\* error unless the install for an earlier tool failed on the filesystem;
\* with known ids only and no tool blocked it returns the target files.
C9_InstallResult ==
    op.name = "install_skill_to_tools" =>
        LET ids == op.tool_ids
            blocked == {k \in 1..Len(ids) :
                          k \notin Unknown(ids) /\ Blocked(pre, ids[k], op.skill_name)}
        IN  /\ Unknown(ids) # {} => ~res.ok
            /\ (\E u \in Unknown(ids) : \A b \in blocked : u < b)
                    => res.err = "Unknown tool"
            /\ (Unknown(ids) = {} /\ blocked = {}) => ReturnsTargets
            /\ blocked # {} => ~res.ok

\* An install for two tools that returned both target files, in input order.
C9_Witness ==
    /\ op.name = "install_skill_to_tools"
    /\ op.tool_ids = <<"kilocode", "claude">>
    /\ op.skill_name = MySkill
    /\ res.ok
    /\ res.paths = <<Home \o <<".kilocode", "skills", "my-skill", "SKILL.md">>,
                     Home \o <<".claude", "skills", "my-skill", "SKILL.md">>>>

(***************************************************************************)
(* tools.rs: install_skill_files_to_tools.  A file is a pair               *)
(* <<relative_path, content>>.                                             *)
(***************************************************************************)
RECURSIVE InstallEachFile(_, _, _)
\* The loop over the files of one tool.
InstallEachFile(f, skill_dir, files) ==
    IF files = <<>> THEN [ok |-> TRUE, fs |-> f]
    ELSE LET file_path == Join(skill_dir, Head(files)[1])
             d == IF file_path = <<>> \/ Exists(f, Front(file_path))
                  THEN [ok |-> TRUE, fs |-> f]
                  ELSE create_dir_all(f, Front(file_path))
         IN  IF ~d.ok THEN d
             ELSE LET w == write(d.fs, file_path, as_bytes(Head(files)[2]))
                  IN  IF ~w.ok THEN w
                      ELSE InstallEachFile(w.fs, skill_dir, Tail(files))

\* One round of the loop of install_skill_files_to_tools.
InstallFilesOne(f, files, folder_name, tool) ==
    LET skills_dir == InstallSkillsDir(tool)
        a == IF Exists(f, skills_dir) THEN [ok |-> TRUE, fs |-> f]
             ELSE create_dir_all(f, skills_dir)
        skill_dir == JoinName(skills_dir, folder_name)
    IN  IF ~a.ok THEN [ok |-> FALSE, fs |-> a.fs, path |-> skill_dir]
        ELSE LET b == create_dir_all(a.fs, skill_dir)
             IN  IF ~b.ok THEN [ok |-> FALSE, fs |-> b.fs, path |-> skill_dir]
                 ELSE LET w == InstallEachFile(b.fs, skill_dir, files)
                      IN  [ok |-> w.ok, fs |-> w.fs, path |-> skill_dir]

RECURSIVE InstallFilesLoop(_, _, _, _, _)
InstallFilesLoop(f, files, folder_name, tool_ids, installed_paths) ==
    IF tool_ids = <<>>
    THEN [ok |-> TRUE, err |-> "", paths |-> installed_paths, fs |-> f]
    ELSE LET t == FindTool(Head(tool_ids))
         IN  IF ~t.some
             THEN [ok |-> FALSE, err |-> "Unknown tool", paths |-> <<>>, fs |-> f]
             ELSE LET r == InstallFilesOne(f, files, folder_name, t.tool)
                  IN  IF ~r.ok
                      THEN [ok |-> FALSE, err |-> "Failed", paths |-> <<>>, fs |-> r.fs]
                      ELSE InstallFilesLoop(r.fs, files, folder_name, Tail(tool_ids),
                                            Append(installed_paths, r.path))

install_skill_files_to_tools(f, files, skill_name, tool_ids) ==
    InstallFilesLoop(f, files, FolderName(skill_name), tool_ids, <<>>)

(***************************************************************************)
(* Where the two multi-file writers put their files.                       *)
(***************************************************************************)
ConfineSeeds == {Mk({<<Home, Dir>>, <<<<"w">>, Dir>>})}
ConfineToolIds == {<<"claude">>, <<"kilocode", "claude">>}
SkillFiles == {<<path, <<65>>>> : path \in IncomingPaths}
ConfineIncoming == [filepath : IncomingPaths, content : {<<65>>}]

InstallSkillFilesToTools(files, skill_name, tool_ids) ==
    LET r == install_skill_files_to_tools(fs, files, skill_name, tool_ids)
    IN  Called([name |-> "install_skill_files_to_tools", files |-> files,
                skill_name |-> skill_name, tool_ids |-> tool_ids],
               [ok |-> r.ok, err |-> r.err, paths |-> r.paths], r.fs)

InitConfine == \E f \in ConfineSeeds : Start(f)
NextConfine ==
    \/ \E files \in SeqsUpTo(SkillFiles, MaxFiles), tool_ids \in ConfineToolIds :
            InstallSkillFilesToTools(files, MySkill, tool_ids)
    \/ \E files \in SeqsUpTo(ConfineIncoming, MaxFiles) : WriteFiles(SyncRoot, files)
SpecConfine == InitConfine /\ [][NextConfine]_vars

\* The regular files a call wrote: those that are new or hold other data.
Written == {p \in DOMAIN fs : IsFile(fs, p) /\ (~IsFile(pre, p) \/ pre[p] # fs[p])}

\* C10 (path confinement): every file install_skill_files_to_tools writes lies
\* under <primary skill dir>/<slug> of a requested tool, and every file
\* write_files writes lies under the root.
C10_PathConfinement ==
    /\ op.name = "install_skill_files_to_tools" =>
        \A p \in Written :
            \E k \in 1..Len(op.tool_ids) :
                /\ op.tool_ids[k] \in ToolIds
                /\ IsPrefix(JoinName(PrimarySkillDir(op.tool_ids[k]),
                                     ExpectedFolder(op.skill_name)), p)
    /\ op.name = "write_files" => \A p \in Written : IsPrefix(op.root, p)

(***************************************************************************)
(* tools.rs: the metadata parsers.  A content is a string, a sequence of   *)
(* characters; every pattern the parsers slice by is ASCII, so an offset   *)
(* in characters and the code's offset in bytes cut at the same place.     *)
(***************************************************************************)
None == [some |-> FALSE, str |-> <<>>]
Some(s) == [some |-> TRUE, str |-> s]

\* str::starts_with
starts_with(s, pat) == Len(s) >= Len(pat) /\ SubSeq(s, 1, Len(pat)) = pat

\* str::find: the offset of the first occurrence of pat in s.
find(s, pat) ==
    LET at == {i \in 0..(Len(s) - Len(pat)) : SubSeq(s, i + 1, i + Len(pat)) = pat}
    IN  IF at = {} THEN [some |-> FALSE, at |-> 0]
        ELSE [some |-> TRUE, at |-> CHOOSE i \in at : \A j \in at : i <= j]

\* char::is_whitespace
is_whitespace(c) ==
    \/ c \in {9, 10, 11, 12, 13, 32, 133, 160, 5760, 8232, 8233, 8239, 8287, 12288}
    \/ c >= 8192 /\ c <= 8202

\* The part of s from the first to the last of the positions keep.
Between(s, keep) ==
    IF keep = {} THEN <<>>
    ELSE SubSeq(s, CHOOSE i \in keep : \A j \in keep : i <= j,
                   CHOOSE i \in keep : \A j \in keep : j <= i)

\* str::trim
trim(s) == Between(s, {i \in 1..Len(s) : ~is_whitespace(s[i])})

\* str::trim_matches(c)
trim_matches(s, c) == Between(s, {i \in 1..Len(s) : s[i] # c})

RECURSIVE lines(_)
\* str::lines: the pieces between line feeds, each without the carriage
\* return that ends it; no last piece after a final line feed.
lines(s) ==
    IF s = <<>> THEN <<>>
    ELSE LET nl == find(s, <<10>>)
         IN  IF ~nl.some THEN <<s>>
             ELSE LET raw == SubSeq(s, 1, nl.at)
                      line == IF raw # <<>> /\ Last(raw) = 13 THEN Front(raw) ELSE raw
                  IN  <<line>> \o lines(SubSeq(s, nl.at + 2, Len(s)))

Delimiter == <<45, 45, 45>>
\* The keys of the if / else-if chain of extract_metadata, and of parse_skill_md.
MetadataKeys ==
    <<[field |-> "name", prefix |-> <<110, 97, 109, 101, 58>>],
      [field |-> "description", prefix |-> <<100, 101, 115, 99, 114, 105, 112, 116, 105, 111, 110, 58>>],
      [field |-> "author", prefix |-> <<97, 117, 116, 104, 111, 114, 58>>],
      [field |-> "category", prefix |-> <<99, 97, 116, 101, 103, 111, 114, 121, 58>>]>>
SkillMdKeys == SubSeq(MetadataKeys, 1, 3)

\* content[3..end + 3] where end is the offset of "---" in content[3..].
Frontmatter(content) ==
    IF starts_with(content, Delimiter)
    THEN LET rest == SubSeq(content, 4, Len(content))
             end == find(rest, Delimiter)
         IN  IF end.some THEN Some(SubSeq(rest, 1, end.at)) ELSE None
    ELSE None

RECURSIVE ScanFrontmatter(_, _, _)
\* The loop over the lines of the frontmatter: a line that starts with a key
\* sets its field, a later line overrides an earlier one.
ScanFrontmatter(ls, keys, m) ==
    IF ls = <<>> THEN m
    ELSE LET line == trim(Head(ls))
             hits == {k \in 1..Len(keys) : starts_with(line, keys[k].prefix)}
             k == CHOOSE i \in hits : \A j \in hits : i <= j
             value == trim_matches(
                          trim(SubSeq(line, Len(keys[k].prefix) + 1, Len(line))), 34)
         IN  ScanFrontmatter(Tail(ls), keys,
                             IF hits = {} THEN m
                             ELSE [m EXCEPT ![keys[k].field] = Some(value)])

RECURSIVE FirstHeading(_)
\* The fallback: line[2..] of the first trimmed line that starts with "# ".
FirstHeading(ls) ==
    IF ls = <<>> THEN None
    ELSE LET line == trim(Head(ls))
         IN  IF starts_with(line, <<35, 32>>) THEN Some(SubSeq(line, 3, Len(line)))
             ELSE FirstHeading(Tail(ls))

extract_metadata(content) ==
    LET fm == Frontmatter(content)
        m0 == [name |-> None, description |-> None, author |-> None, category |-> None]
        m == IF fm.some THEN ScanFrontmatter(lines(fm.str), MetadataKeys, m0) ELSE m0
    IN  [m EXCEPT !.name = IF m.name.some THEN m.name ELSE FirstHeading(lines(content))]

parse_skill_md(content) ==
    LET fm == Frontmatter(content)
        m0 == [name |-> None, description |-> None, author |-> None]
        m == IF fm.some THEN ScanFrontmatter(lines(fm.str), SkillMdKeys, m0) ELSE m0
    IN  [m EXCEPT !.name = IF m.name.some THEN m.name ELSE FirstHeading(lines(content))]

(***************************************************************************)
(* The parsers on contents built from a metadata block and a body.  An     *)
(* input keeps the pieces its content is rendered from.                    *)
(***************************************************************************)
RECURSIVE JoinLines(_)
\* The lines, each ended by a line feed.
JoinLines(ls) == IF ls = <<>> THEN <<>> ELSE Head(ls) \o <<10>> \o JoinLines(Tail(ls))

\* What follows "name:" on its line:  x | " x " | "x" in double quotes |
\* a---b | "a---b" in double quotes | My Skill | 'x' in single quotes |
\* x in two layers of double quotes.
NameValues ==
    {<<32, 120>>, <<32, 32, 120, 32, 32>>, <<32, 34, 120, 34>>, <<32, 97, 45, 45, 45, 98>>, <<32, 34, 97, 45, 45, 45, 98, 34>>, <<32, 77, 121, 32, 83, 107, 105, 108, 108>>,
     <<32, 39, 120, 39>>, <<32, 34, 34, 120, 34, 34>>}
\* description: d | description: d---e | author: me | category: c
OtherLines ==
    {<<100, 101, 115, 99, 114, 105, 112, 116, 105, 111, 110, 58, 32, 100>>, <<100, 101, 115, 99, 114, 105, 112, 116, 105, 111, 110, 58, 32, 100, 45, 45, 45, 101>>, <<97, 117, 116, 104, 111, 114, 58, 32, 34, 109, 101, 34>>, <<99, 97, 116, 101, 103, 111, 114, 121, 58, 32, 99>>}
\* The heading lines  "# Title"  and  "  # Title  ".
TitleLines == {<<35, 32, 84, 105, 116, 108, 101>>, <<32, 32, 35, 32, 84, 105, 116, 108, 101, 32, 32>>}
Title == <<84, 105, 116, 108, 101>>
\* Lines that are no level-1 heading:  intro | ## Sub | #Title | --- | name: x
PlainLines == {<<105, 110, 116, 114, 111>>, <<35, 35, 32, 83, 117, 98>>, <<35, 84, 105, 116, 108, 101>>, <<45, 45, 45>>, <<110, 97, 109, 101, 58, 32, 120>>}

BlockInputs ==
    [kind : {"block"}, before : SeqsUpTo(OtherLines, 1), value : NameValues,
     after : SeqsUpTo(OtherLines, 1), body : SeqsUpTo(TitleLines, 1)]
PlainInputs ==
    [kind : {"plain"}, before : SeqsUpTo(PlainLines, 2), body : SeqsUpTo(TitleLines, 1)]
ParseInputs == BlockInputs \cup PlainInputs

\* The content of an input.
Render(i) ==
    IF i.kind = "block"
    THEN Delimiter \o <<10>>
         \o JoinLines(i.before \o <<<<110, 97, 109, 101, 58>> \o i.value>> \o i.after)
         \o Delimiter \o <<10>> \o JoinLines(i.body)
    ELSE JoinLines(i.before \o i.body)

ExtractMetadata ==
    Called([name |-> "extract_metadata", input |-> op.input,
            content |-> Render(op.input)],
           extract_metadata(Render(op.input)), fs)

ParseSkillMd ==
    Called([name |-> "parse_skill_md", input |-> op.input,
            content |-> Render(op.input)],
           parse_skill_md(Render(op.input)), fs)

InitParse ==
    \E i \in ParseInputs :
        /\ fs = Mk({})
        /\ op = [name |-> "input", input |-> i]
        /\ res = [ok |-> TRUE]
        /\ pre = fs
        /\ prev = NoPrev
        /\ nops = 0
        /\ procs = <<>>
NextParse == ExtractMetadata \/ ParseSkillMd
SpecParse == InitParse /\ [][NextParse]_vars

\* A parser returned.
Parsed == op.name \in {"extract_metadata", "parse_skill_md"}

\* An optional string.
IsOption(x) == x = None \/ (x.some /\ x.str \in Seq(Nat))

\* The value of a name: line as the claim has it: trimmed, and without one
\* layer of surrounding quotes.
Unquoted(v) ==
    LET t == trim(v)
    IN  IF Len(t) >= 2 /\ t[1] = Last(t) /\ t[1] \in {34, 39}
        THEN SubSeq(t, 2, Len(t) - 1)
        ELSE t

\* C7 (parseMetadata): the parser always returns a record of optional fields;
\* on a content that starts with a metadata block with a name: line it
\* returns the value of that line, trimmed and unquoted, also when values
\* contain '---'; on a content with no metadata block whose first level-1
\* heading is "# Title" it returns the name "Title".
C7_ParseMetadata ==
    Parsed =>
        /\ \A k \in DOMAIN res : IsOption(res[k])
        /\ op.input.kind = "block" => res.name = Some(Unquoted(op.input.value))
        /\ (op.input.kind = "plain" /\ op.input.body # <<>>
              /\ ~starts_with(op.content, Delimiter))
                => res.name = Some(Title)

\* The lines of the metadata block of a block input.
BlockLines(i) == i.before \o <<<<110, 97, 109, 101, 58>> \o i.value>> \o i.after

\* The value the claim gives the field of a key: that of the last line of the
\* block that starts with the key, trimmed and without one layer of quotes.
QuotedValue(ls, key) ==
    LET hits == {n \in 1..Len(ls) : starts_with(ls[n], key.prefix)}
        last == CHOOSE n \in hits : \A j \in hits : j <= n
    IN  IF hits = {} THEN None
        ELSE Some(Unquoted(SubSeq(ls[last], Len(key.prefix) + 1, Len(ls[last]))))

\* C25: on a content whose metadata block holds no '---' inside a line, each
\* of the fields name, description, author and category that the parser
\* returns is the remainder of its line, trimmed, with exactly one layer of
\* surrounding double or single quotes removed.
C25_OneQuoteLayer ==
    (/\ Parsed
     /\ op.input.kind = "block"
     /\ \A n \in 1..Len(BlockLines(op.input)) : ~find(BlockLines(op.input)[n], Delimiter).some)
        => \A k \in 1..Len(MetadataKeys) :
               MetadataKeys[k].field \in DOMAIN res
                   => res[MetadataKeys[k].field] = QuotedValue(BlockLines(op.input), MetadataKeys[k])

(***************************************************************************)
(* tools.rs: the folder tree.  A FileNode is a record; its children are    *)
(* [some, nodes], its content [some, str], its metadata [some, meta].      *)
(***************************************************************************)
NoChildren == [some |-> FALSE, nodes |-> <<>>]
NoMetadata == [some |-> FALSE]

\* The extensions of the files build_tree reads.
text_extensions ==
    {<<109, 100>>, <<109, 100, 120>>, <<116, 120, 116>>, <<106, 115, 111, 110>>, <<121, 97, 109, 108>>, <<121, 109, 108>>, <<116, 111, 109, 108>>, <<105, 110, 105>>, <<120, 109, 108>>,
     <<112, 121>>, <<106, 115>>, <<116, 115>>, <<106, 115, 120>>, <<116, 115, 120>>, <<114, 115>>, <<103, 111>>, <<114, 98>>, <<106, 97, 118, 97>>, <<107, 116>>, <<115, 99, 97, 108, 97>>,
     <<99>>, <<99, 112, 112>>, <<104>>, <<104, 112, 112>>, <<99, 115>>, <<112, 104, 112>>, <<115, 119, 105, 102, 116>>, <<115, 104>>, <<98, 97, 115, 104>>, <<122, 115, 104>>,
     <<115, 113, 108>>, <<103, 114, 97, 112, 104, 113, 108>>, <<99, 115, 115>>, <<115, 99, 115, 115>>, <<108, 101, 115, 115>>, <<104, 116, 109, 108>>, <<118, 117, 101>>, <<115, 118, 101, 108, 116, 101>>,
     <<109, 100, 99>>, <<99, 117, 114, 115, 111, 114, 114, 117, 108, 101, 115>>, <<101, 110, 118>>, <<103, 105, 116, 105, 103, 110, 111, 114, 101>>, <<100, 111, 99, 107, 101, 114, 105, 103, 110, 111, 114, 101>>}
\* dockerfile, makefile, .gitignore, .env
text_names == {<<100, 111, 99, 107, 101, 114, 102, 105, 108, 101>>, <<109, 97, 107, 101, 102, 105, 108, 101>>, <<46, 103, 105, 116, 105, 103, 110, 111, 114, 101>>, <<46, 101, 110, 118>>}

\* str::to_lowercase
to_lowercase(s) == [i \in 1..Len(s) |-> ToLower(s[i])]

should_read(name) ==
    \/ Extension(name).some /\ to_lowercase(Extension(name).ext) \in text_extensions
    \/ to_lowercase(Codes(name)) \in text_names

\* fs::read_to_string(path).await.ok()
read_to_string(f, p) ==
    IF ~Readable(f, p) THEN None
    ELSE LET d == from_utf8(f[p].data) IN IF d.ok THEN Some(d.s) ELSE None

\* The name of a node: the file name of the path, or the path if it has none.
NodeName(path) == IF path = <<>> THEN Sep ELSE FileName(path)

\* The node of a path that is no directory.
FileNodeOf(f, path) ==
    LET name == NodeName(path)
        content == IF should_read(name) THEN read_to_string(f, path) ELSE None
    IN  [name |-> name, path |-> path, is_dir |-> FALSE, children |-> NoChildren,
         content |-> content,
         metadata |-> IF HasMdExtension(name) /\ content.some
                      THEN [some |-> TRUE, meta |-> extract_metadata(content.str)]
                      ELSE NoMetadata]

RECURSIVE SeqLess(_, _)
\* The order of strings: by the first character that differs, a proper prefix
\* first.
SeqLess(a, b) ==
    IF b = <<>> THEN FALSE
    ELSE IF a = <<>> THEN TRUE
    ELSE IF Head(a) # Head(b) THEN Head(a) < Head(b)
    ELSE SeqLess(Tail(a), Tail(b))

\* A comparison that puts files before directories.
SortsFilesFirst(f, p, q) ==
    \/ ~IsDir(f, p) /\ IsDir(f, q)
    \/ /\ IsDir(f, p) = IsDir(f, q)
       /\ SeqLess(to_lowercase(Codes(FileName(p))), to_lowercase(Codes(FileName(q))))

\* The comparison of children.sort_by gives Less for the entries p and q.
SortsBefore(f, p, q) ==
    \/ IsDir(f, p) /\ ~IsDir(f, q)
    \/ /\ IsDir(f, p) = IsDir(f, q)
       /\ SeqLess(to_lowercase(Codes(FileName(p))), to_lowercase(Codes(FileName(q))))

RECURSIVE SortedOrders(_, _)
\* The orders children.sort_by can leave the entries S in: the sort is stable
\* and read_dir yields the entries in any order, so entries that compare
\* Equal end in any order.
SortedOrders(f, S) ==
    IF S = {} THEN {<<>>}
    ELSE UNION {{<<q>> \o o : o \in SortedOrders(f, S \ {q})} :
                  q \in {m \in S : \A r \in S : ~SortsBefore(f, r, m)}}

RECURSIVE NodeLists(_, _)
\* The lists with one node of sub[q] for each entry q of the order o.
NodeLists(o, sub) ==
    IF o = <<>> THEN {<<>>}
    ELSE {<<n>> \o l : n \in sub[Head(o)], l \in NodeLists(Tail(o), sub)}

\* An expansion that goes one level further than max_depth.
ExpandsAtBound(current_depth, max_depth) == current_depth <= max_depth

\* An expansion with no bound.
ExpandsAlways(current_depth, max_depth) == TRUE

\* if current_depth < max_depth
Expands(current_depth, max_depth) == current_depth < max_depth

RECURSIVE build_tree(_, _, _, _)
\* The nodes build_tree can return for the path.
build_tree(f, path, current_depth, max_depth) ==
    IF ~IsDir(f, path) THEN {FileNodeOf(f, path)}
    ELSE LET entries == IF Expands(current_depth, max_depth)
                        THEN {q \in Children(f, path) : ~StartsWithDot(FileName(q))}
                        ELSE {}
             sub == [q \in entries |-> build_tree(f, q, current_depth + 1, max_depth)]
             children == UNION {NodeLists(o, sub) : o \in SortedOrders(f, entries)}
         IN  {[name |-> NodeName(path), path |-> path, is_dir |-> TRUE,
               children |-> [some |-> TRUE, nodes |-> c],
               content |-> None, metadata |-> NoMetadata] : c \in children}

\* [fs, results]: the filesystem get_folder_tree leaves and what it can return.
get_folder_tree(f, path, max_depth) ==
    LET a == IF Exists(f, path) THEN [ok |-> TRUE, fs |-> f]
             ELSE create_dir_all(f, path)
    IN  IF ~a.ok THEN [fs |-> a.fs, results |-> {[ok |-> FALSE]}]
        ELSE [fs |-> a.fs,
              results |-> {[ok |-> TRUE, node |-> n] :
                             n \in build_tree(a.fs, path, 0, max_depth)}]

(***************************************************************************)
(* The tree builder on directories under /t.                               *)
(***************************************************************************)
\* The depths asked for go from 0 to MaxDepth.
MaxDepth == 2

\* # T
HeadingData == as_bytes(<<35, 32, 84>>)
TreeEntries ==
    {<<<<"t", "sub">>, Dir>>,
     <<<<"t", "sub", "inner", "f.md">>, File(HeadingData)>>,
     <<<<"t", ".hidden">>, Dir>>,
     <<<<"t", "b.txt">>, File(<<65>>)>>,
     <<<<"t", "B.txt">>, File(<<255>>)>>,
     <<<<"t", "Alpha.md">>, File(HeadingData)>>,
     <<<<"t", "image.png">>, File(<<65>>)>>}
TreeSeeds == {Mk(E \cup {<<<<"t">>, Dir>>}) : E \in SUBSET TreeEntries}
TreePaths == {<<"t">>, <<"t", "sub">>, <<"t", "Alpha.md">>, <<"t", "b.txt", "missing">>}

GetFolderTree(path, max_depth) ==
    LET r == get_folder_tree(fs, path, max_depth)
    IN  \E result \in r.results :
            Called([name |-> "get_folder_tree", path |-> path, max_depth |-> max_depth],
                   result, r.fs)

InitTree == \E f \in TreeSeeds : Start(f)
NextTree == \E path \in TreePaths, max_depth \in 0..MaxDepth : GetFolderTree(path, max_depth)
SpecTree == InitTree /\ [][NextTree]_vars

\* The directory p holds one entry that is not hidden, and it is a directory.
OneSubdirectory(f, p) ==
    /\ IsDir(f, p)
    /\ \E d \in Children(f, p) :
        /\ IsDir(f, d)
        /\ {q \in Children(f, p) : ~StartsWithDot(FileName(q))} = {d}

\* A directory node with a child list that is present and empty.
IsChildlessDir(n) == n.is_dir /\ n.children = [some |-> TRUE, nodes |-> <<>>]

\* The root node of the result has one child, a directory node whose child
\* list is present and empty.
HasOneChildlessChild ==
    /\ res.ok
    /\ res.node.children.some
    /\ Len(res.node.children.nodes) = 1
    /\ IsChildlessDir(res.node.children.nodes[1])

\* C6 as stated: get_folder_tree with max_depth = 0 on a directory with one
\* subdirectory returns a root node with one child, a directory node whose
\* child list is present and empty.
C6_AsStated ==
    (op.name = "get_folder_tree" /\ op.max_depth = 0 /\ OneSubdirectory(pre, op.path))
        => HasOneChildlessChild

\* C6, amended: on a directory with one subdirectory, max_depth = 1 gives the
\* root node one child, a directory node whose child list is present and
\* empty, and max_depth = 0 gives a root node whose own child list is
\* present and empty.
C6_TreeDepth ==
    (op.name = "get_folder_tree" /\ OneSubdirectory(pre, op.path)) =>
        /\ op.max_depth = 0 => res.ok /\ IsChildlessDir(res.node)
        /\ op.max_depth = 1 =>
            /\ HasOneChildlessChild
            /\ res.node.children.nodes[1].path \in Children(pre, op.path)

\* A tree of /t to depth 1 where the subdirectory /t/sub has an entry of its
\* own, which the tree leaves out.
C6_Witness ==
    /\ op.name = "get_folder_tree"
    /\ op.path = <<"t">>
    /\ op.max_depth = 1
    /\ OneSubdirectory(pre, <<"t">>)
    /\ IsDir(pre, <<"t", "sub", "inner">>)
    /\ HasOneChildlessChild
    /\ res.node.children.nodes[1].path = <<"t", "sub">>

(***************************************************************************)
(* uninstall_skill: what it removes and what it leaves.                    *)
(***************************************************************************)
\* The entries at or below p.
Subtree(f, p) == {q \in DOMAIN f : IsPrefix(p, q)}

\* f and g hold the same entries outside the set of paths P.
SameOutside(f, g, P) ==
    /\ DOMAIN f \ P = DOMAIN g \ P
    /\ \A q \in DOMAIN f \ P : f[q] = g[q]

\* C11 (uninstall frame): uninstall_skill on a directory returns Ok, leaves
\* nothing at or below the path and everything else as it was; on a file it
\* returns Ok, removes the file, removes the parent directory exactly if the
\* file was its only entry, and leaves everything else as it was; on a path
\* that does not exist it changes nothing.
C11_UninstallFrame ==
    op.name = "uninstall_skill" =>
        LET path == op.path
            parent == Front(path)
        IN  /\ IsDir(pre, path) =>
                /\ res.ok
                /\ Subtree(fs, path) = {}
                /\ SameOutside(pre, fs, Subtree(pre, path))
            /\ IsFile(pre, path) =>
                /\ res.ok
                /\ ~Exists(fs, path)
                /\ Exists(fs, parent) <=> Children(pre, parent) # {path}
                /\ SameOutside(pre, fs, {path, parent})
                /\ Exists(fs, parent) => fs[parent] = pre[parent]
            /\ ~Exists(pre, path) => res.ok /\ fs = pre

\* An uninstall of a file that was the only entry of its directory, and the
\* directory went with it while its own parent kept its other entries.
C11_Witness ==
    /\ op.name = "uninstall_skill"
    /\ IsFile(pre, op.path)
    /\ ~Exists(fs, Front(op.path))
    /\ Children(fs, Front(Front(op.path))) # {}

(***************************************************************************)
(* sync.rs: the sidecar record.  serde_json writes a SyncMeta as an object *)
(* of five members and reads one back; both are modelled on the text.      *)
(***************************************************************************)
MetaFileName == ".skillhub.json"

\* The fields of SyncMeta, in declaration order, with their JSON keys.
MetaFields ==
    <<[field |-> "skill_id", key |-> <<115, 107, 105, 108, 108, 95, 105, 100>>, number |-> FALSE],
      [field |-> "skill_slug", key |-> <<115, 107, 105, 108, 108, 95, 115, 108, 117, 103>>, number |-> FALSE],
      [field |-> "version", key |-> <<118, 101, 114, 115, 105, 111, 110>>, number |-> TRUE],
      [field |-> "synced_at", key |-> <<115, 121, 110, 99, 101, 100, 95, 97, 116>>, number |-> FALSE],
      [field |-> "platform_url", key |-> <<112, 108, 97, 116, 102, 111, 114, 109, 95, 117, 114, 108>>, number |-> FALSE]>>

\* 0..15 as a lower-case hexadecimal digit.
HexDigit(d) == IF d < 10 THEN 48 + d ELSE 87 + d

\* A character written as it stands, without any escape.
EscapeCharRaw(c) == <<c>>

\* A character inside a JSON string, as serde_json writes it.
EscapeChar(c) ==
    IF c = 34 THEN <<92, 34>>
    ELSE IF c = 92 THEN <<92, 92>>
    ELSE IF c = 8 THEN <<92, 98>>
    ELSE IF c = 12 THEN <<92, 102>>
    ELSE IF c = 10 THEN <<92, 110>>
    ELSE IF c = 13 THEN <<92, 114>>
    ELSE IF c = 9 THEN <<92, 116>>
    ELSE IF c < 32 THEN <<92, 117, 48, 48, HexDigit(c \div 16), HexDigit(c % 16)>>
    ELSE <<c>>

RECURSIVE EscapeString(_)
\* The characters of a string as written, one after the other.
EscapeString(s) ==
    IF s = <<>> THEN <<>>
    ELSE IF Len(s) = 1 THEN EscapeChar(s[1])
    ELSE LET h == Len(s) \div 2
         IN  EscapeString(SubSeq(s, 1, h)) \o EscapeString(SubSeq(s, h + 1, Len(s)))

JsonString(s) == <<34>> \o EscapeString(s) \o <<34>>

RECURSIVE JsonNumber(_)
\* An unsigned integer in decimal.
JsonNumber(n) ==
    IF n < 10 THEN <<48 + n>> ELSE JsonNumber(n \div 10) \o <<48 + (n % 10)>>

RECURSIVE JsonMembers(_, _)
\* The members from field k on, each on a line of its own, indented by two.
JsonMembers(meta, k) ==
    LET fd == MetaFields[k]
        value == IF fd.number THEN JsonNumber(meta[fd.field])
                 ELSE JsonString(meta[fd.field])
        member == <<10, 32, 32>> \o JsonString(fd.key) \o <<58, 32>> \o value
    IN  IF k = Len(MetaFields) THEN member
        ELSE member \o <<44>> \o JsonMembers(meta, k + 1)

\* serde_json::to_string_pretty(meta)
to_string_pretty(meta) == <<123>> \o JsonMembers(meta, 1) \o <<10, 125>>

\* The position of the first character from i on that is no JSON whitespace.
RECURSIVE SkipWhitespace(_, _)
SkipWhitespace(s, i) ==
    IF i <= Len(s) /\ s[i] \in {32, 9, 10, 13} THEN SkipWhitespace(s, i + 1) ELSE i

\* The value of a hexadecimal digit, 16 if the character is none.
HexValue(c) ==
    IF c >= 48 /\ c <= 57 THEN c - 48
    ELSE IF c >= 97 /\ c <= 102 THEN c - 87
    ELSE IF c >= 65 /\ c <= 70 THEN c - 55
    ELSE 16

\* [ok, c, next]: the character of the escape whose backslash is at s[i].
\* An escape of a surrogate is read as an error.
ParseEscape(s, i) ==
    LET bad == [ok |-> FALSE, c |-> 0, next |-> i]
        e == s[i + 1]
        one(c) == [ok |-> TRUE, c |-> c, next |-> i + 2]
    IN  IF i + 1 > Len(s) THEN bad
        ELSE IF e \in {34, 92, 47} THEN one(e)
        ELSE IF e = 98 THEN one(8)
        ELSE IF e = 102 THEN one(12)
        ELSE IF e = 110 THEN one(10)
        ELSE IF e = 114 THEN one(13)
        ELSE IF e = 116 THEN one(9)
        ELSE IF e = 117 THEN
            IF i + 5 > Len(s) THEN bad
            ELSE LET h == [k \in 1..4 |-> HexValue(s[i + 1 + k])]
                     v == h[1] * 4096 + h[2] * 256 + h[3] * 16 + h[4]
                 IN  IF \E k \in 1..4 : h[k] = 16 THEN bad
                     ELSE IF v >= 55296 /\ v <= 57343 THEN bad
                     ELSE [ok |-> TRUE, c |-> v, next |-> i + 6]
        ELSE bad

NoString == [ok |-> FALSE, str |-> <<>>, next |-> 0]

\* The string that starts with the character ch and goes on with r.
StringCons(ch, r) ==
    IF ~r.ok THEN NoString
    ELSE [ok |-> TRUE, str |-> <<ch>> \o r.str, next |-> r.next]

RECURSIVE ParseStringBody(_, _)
\* The string after the character c, read up to c.next.
StringAfter(s, c) ==
    IF ~c.ok THEN NoString ELSE StringCons(c.c, ParseStringBody(s, c.next))

\* The string that starts with the characters run and goes on with r.
StringPrepend(run, r) ==
    IF ~r.ok THEN NoString ELSE [r EXCEPT !.str = run \o @]

\* The string whose first characters s[i] .. s[j - 1] stand for themselves.
StringRun(s, i, j) ==
    IF s[j] = 34 THEN [ok |-> TRUE, str |-> SubSeq(s, i, j - 1), next |-> j + 1]
    ELSE IF s[j] < 32 THEN NoString
    ELSE StringPrepend(SubSeq(s, i, j - 1), StringAfter(s, ParseEscape(s, j)))

\* [ok, str, next]: the characters of a JSON string from s[i] to its closing
\* quote.
\* The characters from s[i] on that stand for themselves are taken as one
\* run, up to the first quote, backslash or control character, at s[j].
ParseStringBody(s, i) ==
    LET stops == {j \in i..Len(s) : s[j] \in {34, 92} \/ s[j] < 32}
    IN  IF stops = {} THEN NoString
        ELSE StringRun(s, i, CHOOSE j \in stops : \A k \in stops : j <= k)

\* [ok, str, next]: the JSON string that starts at s[i].
ParseString(s, i) ==
    IF i <= Len(s) /\ s[i] = 34 THEN ParseStringBody(s, i + 1) ELSE NoString

RECURSIVE DigitsEnd(_, _)
\* The position after the digits that start at s[i].
DigitsEnd(s, i) ==
    IF i <= Len(s) /\ s[i] >= 48 /\ s[i] <= 57 THEN DigitsEnd(s, i + 1) ELSE i

RECURSIVE DigitsValue(_)
DigitsValue(ds) ==
    IF ds = <<>> THEN 0 ELSE DigitsValue(Front(ds)) * 10 + (Last(ds) - 48)

\* [ok, n, next]: the u32 that starts at s[i]: digits without a sign, a
\* leading zero, a fraction or an exponent, of at most ten digits.
ParseNumber(s, i) ==
    LET bad == [ok |-> FALSE, n |-> 0, next |-> i]
        j == DigitsEnd(s, i)
    IN  IF j = i \/ j - i > 10 THEN bad
        ELSE IF s[i] = 48 /\ j - i > 1 THEN bad
        ELSE IF j <= Len(s) /\ s[j] \in {46, 101, 69} THEN bad
        ELSE [ok |-> TRUE, n |-> DigitsValue(SubSeq(s, i, j - 1)), next |-> j]

\* The index in MetaFields of a key, 0 for a key of no field.
FieldOfKey(key) ==
    IF \E k \in 1..Len(MetaFields) : MetaFields[k].key = key
    THEN CHOOSE k \in 1..Len(MetaFields) : MetaFields[k].key = key
    ELSE 0

NoMembers == [ok |-> FALSE, seen |-> <<>>, next |-> 0]

RECURSIVE ParseMembers(_, _, _)
\* After a value that ends before s[after]: a comma and more members, or the
\* closing brace.
MembersNext(s, seen, after) ==
    IF after > Len(s) THEN NoMembers
    ELSE IF s[after] = 44 THEN ParseMembers(s, after + 1, seen)
    ELSE IF s[after] = 125 THEN [ok |-> TRUE, seen |-> seen, next |-> after + 1]
    ELSE NoMembers

\* The value [ok, v, next] read for the field k (0: a key of no field): a
\* field given twice and a value of the wrong type are errors; a member of
\* another key is skipped.
MemberValue(s, seen, k, isString, value) ==
    IF ~value.ok THEN NoMembers
    ELSE IF k = 0 THEN MembersNext(s, seen, SkipWhitespace(s, value.next))
    ELSE IF seen[MetaFields[k].field].some \/ MetaFields[k].number = isString
    THEN NoMembers
    ELSE MembersNext(s, [seen EXCEPT ![MetaFields[k].field] = [some |-> TRUE, v |-> value.v]],
                     SkipWhitespace(s, value.next))

StringValue(r) == [ok |-> r.ok, v |-> r.str, next |-> r.next]
NumberValue(r) == [ok |-> r.ok, v |-> r.n, next |-> r.next]

\* The value that starts at s[at]: a string or a number; anything else is
\* an error.
MemberAt(s, seen, k, at) ==
    IF at <= Len(s) /\ s[at] = 34
    THEN MemberValue(s, seen, k, TRUE, StringValue(ParseString(s, at)))
    ELSE MemberValue(s, seen, k, FALSE, NumberValue(ParseNumber(s, at)))

\* The colon expected at s[colon] after the key.
MemberColon(s, seen, key, colon) ==
    IF ~key.ok THEN NoMembers
    ELSE IF colon > Len(s) \/ s[colon] # 58 THEN NoMembers
    ELSE MemberAt(s, seen, FieldOfKey(key.str), SkipWhitespace(s, colon + 1))

MemberKey(s, seen, key) == MemberColon(s, seen, key, SkipWhitespace(s, key.next))

\* [ok, seen, next]: the members of an object from s[i] on, seen being the
\* values of the fields read so far.
ParseMembers(s, i, seen) == MemberKey(s, seen, ParseString(s, SkipWhitespace(s, i)))

NoRecord == [ok |-> FALSE, meta |-> [some |-> FALSE]]

\* The record of the members r read from the text s.
RecordOf(s, r) ==
    IF ~r.ok THEN NoRecord
    ELSE IF SkipWhitespace(s, r.next) <= Len(s) THEN NoRecord
    ELSE IF \E f \in DOMAIN r.seen : ~r.seen[f].some THEN NoRecord
    ELSE [ok |-> TRUE,
          meta |-> [some |-> TRUE, meta |-> [f \in DOMAIN r.seen |-> r.seen[f].v]]]

NoFields ==
    [f \in {MetaFields[k].field : k \in 1..Len(MetaFields)} |-> [some |-> FALSE, v |-> 0]]

\* The object whose brace is at s[open], first being the position of what
\* follows the brace.
ObjectAt(s, open, first) ==
    IF open > Len(s) \/ s[open] # 123 THEN NoRecord
    ELSE IF first <= Len(s) /\ s[first] = 125
    THEN RecordOf(s, [ok |-> TRUE, seen |-> NoFields, next |-> first + 1])
    ELSE RecordOf(s, ParseMembers(s, open + 1, NoFields))

ObjectFrom(s, open) == ObjectAt(s, open, SkipWhitespace(s, open + 1))

\* serde_json::from_str::<SyncMeta>: [ok, meta].  The text is one object with
\* every field of SyncMeta, and nothing but whitespace around it.
from_str(s) == ObjectFrom(s, SkipWhitespace(s, 1))

\* The record of the text read from the sidecar.
MetaOfContent(content) ==
    IF ~content.some THEN NoRecord ELSE from_str(content.str)

\* read_meta: Ok(None) without a sidecar, else the record of its text.
read_meta(f, path) ==
    IF ~Exists(f, JoinName(path, MetaFileName))
    THEN [ok |-> TRUE, meta |-> [some |-> FALSE]]
    ELSE MetaOfContent(read_to_string(f, JoinName(path, MetaFileName)))

\* write_meta: the text written to the sidecar.
write_meta(f, path, meta) ==
    write(f, JoinName(path, MetaFileName), as_bytes(to_string_pretty(meta)))

(***************************************************************************)
(* The sidecar under /w/s and under /w/d, a directory that does not exist. *)
(***************************************************************************)
\* The largest version written.
MaxVersion == 2147483647

\* a | the empty string | q"t | b\s and a line feed | e acute, a tab and the
\* control character 1 | a/b
MetaStrings ==
    {<<97>>, <<>>, <<113, 34, 116>>, <<98, 92, 115, 10>>, <<233, 9, 1>>, <<97, 47, 98>>}
BaseMeta ==
    [skill_id |-> <<105, 100>>, skill_slug |-> <<109, 121, 45, 115, 107, 105, 108, 108>>, version |-> 1,
     synced_at |-> <<50, 48, 50, 52, 45, 48, 49, 45, 48, 49, 84, 48, 48, 58, 48, 48, 58, 48, 48, 90>>, platform_url |-> <<104, 116, 116, 112, 115, 58, 47, 47, 120>>]
Metas ==
    {[BaseMeta EXCEPT !.skill_id = v] : v \in MetaStrings}
        \cup {[BaseMeta EXCEPT !.platform_url = v] : v \in MetaStrings}
        \cup {[BaseMeta EXCEPT !.version = n] : n \in {0, 7, MaxVersion}}

MetaPath == SyncRoot \o <<MetaFileName>>
\* Sidecar texts not written by write_meta: no JSON; an object with only one
\* field; a compact object with the fields in another order, a member of
\* another key and an escape; an object followed by more text.
OtherTexts ==
    {<<120>>,
     <<123, 34, 115, 107, 105, 108, 108, 95, 105, 100, 34, 58, 34, 97, 34, 125>>,
     <<123, 34, 118, 101, 114, 115, 105, 111, 110, 34, 58, 51, 44, 34, 115, 107, 105, 108, 108, 95, 105, 100, 34, 58, 34, 65, 34, 44, 34, 101, 120, 116, 114, 97, 34, 58, 34, 122, 34, 44, 34, 115, 107, 105, 108, 108, 95, 115, 108, 117, 103, 34, 58, 34, 115, 34, 44, 34, 115, 121, 110, 99, 101, 100, 95, 97, 116, 34, 58, 34, 116, 34, 44, 34, 112, 108, 97, 116, 102, 111, 114, 109, 95, 117, 114, 108, 34, 58, 34, 117, 34, 125>>,
     <<123, 34, 118, 101, 114, 115, 105, 111, 110, 34, 58, 51, 44, 34, 115, 107, 105, 108, 108, 95, 105, 100, 34, 58, 34, 97, 34, 44, 34, 115, 107, 105, 108, 108, 95, 115, 108, 117, 103, 34, 58, 34, 115, 34, 44, 34, 115, 121, 110, 99, 101, 100, 95, 97, 116, 34, 58, 34, 116, 34, 44, 34, 112, 108, 97, 116, 102, 111, 114, 109, 95, 117, 114, 108, 34, 58, 34, 117, 34, 125, 32, 120>>}
MetaSeeds ==
    {Mk({<<SyncRoot, Dir>>}),
     Mk({<<<<"w">>, Dir>>}),
     Mk({<<MetaPath, Dir>>}),
     Mk({<<MetaPath, File(<<255>>)>>})}
        \cup {Mk({<<MetaPath, File(as_bytes(t))>>}) : t \in OtherTexts}

ReadMeta(path) ==
    Called([name |-> "read_meta", path |-> path], read_meta(fs, path), fs)

WriteMeta(path, meta) ==
    LET r == write_meta(fs, path, meta)
    IN  Called([name |-> "write_meta", path |-> path, meta |-> meta],
               [ok |-> r.ok], r.fs)

InitMeta == \E f \in MetaSeeds : Start(f)
NextMeta ==
    \/ \E path \in {SyncRoot, SyncDst} : ReadMeta(path)
    \/ \E path \in {SyncRoot, SyncDst}, meta \in Metas : WriteMeta(path, meta)
SpecMeta == InitMeta /\ [][NextMeta]_vars

\* C12 (sidecar round trip): read_meta returns Ok(None) when the directory
\* holds no .skillhub.json, and read_meta after a successful write_meta of m
\* to the same directory returns Ok(Some(m)), equal to m in all five fields.
C12_MetaRoundTrip ==
    op.name = "read_meta" =>
        /\ ~Exists(pre, JoinName(op.path, MetaFileName))
             => res = [ok |-> TRUE, meta |-> [some |-> FALSE]]
        /\ (prev.op.name = "write_meta" /\ prev.res.ok /\ prev.op.path = op.path)
             => /\ res.ok
                /\ res.meta.some
                /\ \A k \in 1..Len(MetaFields) :
                     res.meta.meta[MetaFields[k].field]
                        = prev.op.meta[MetaFields[k].field]

\* A read after the write of a record whose skill_id holds a quote.
C12_Witness ==
    /\ op.name = "read_meta"
    /\ prev.op.name = "write_meta"
    /\ prev.res.ok
    /\ prev.op.path = op.path
    /\ prev.op.meta.skill_id = <<113, 34, 116>>
    /\ res.ok
    /\ res.meta.some
    /\ res.meta.meta.skill_id = <<113, 34, 116>>

(***************************************************************************)
(* The operations step by step.  An operation in progress is a record: its *)
(* call, where it stands (pc), the file index i, the tool index k, the     *)
(* list of files to remove, the paths collected so far and, once its pc is *)
(* "done", its result.  A step is one call of std::fs or tokio::fs.        *)
(***************************************************************************)
NewProc(call) ==
    [call |-> call, pc |-> "start", i |-> 1, k |-> 1, list |-> <<>>,
     paths |-> <<>>, result |-> [ok |-> TRUE]]

\* The operation has returned r.
Finish(p, r) == [p EXCEPT !.pc = "done", !.result = r]

\* write_files, one filesystem call at a time.
WriteFilesStep(p, f) ==
    LET root == p.call.root
        files == p.call.files
        failed == [ok |-> FALSE]
        file_path == Join(root, files[p.i].filepath)
    IN  IF p.pc = "start" THEN
            LET c == create_dir_all(f, root)
            IN  IF ~c.ok THEN [p |-> Finish(p, failed), fs |-> c.fs]
                ELSE [p |-> [p EXCEPT !.pc = IF files = <<>> THEN "scan"
                                              ELSE "create_parent"],
                      fs |-> c.fs]
        ELSE IF p.pc = "create_parent" THEN
            LET d == IF file_path = <<>> THEN [ok |-> TRUE, fs |-> f]
                     ELSE create_dir_all(f, Front(file_path))
            IN  IF ~d.ok THEN [p |-> Finish(p, failed), fs |-> d.fs]
                ELSE [p |-> [p EXCEPT !.pc = "write"], fs |-> d.fs]
        ELSE IF p.pc = "write" THEN
            LET w == write(f, file_path, as_bytes(files[p.i].content))
            IN  IF ~w.ok THEN [p |-> Finish(p, failed), fs |-> w.fs]
                ELSE [p |-> [p EXCEPT !.i = IF p.i = Len(files) THEN 1 ELSE p.i + 1,
                                      !.pc = IF p.i = Len(files) THEN "scan"
                                             ELSE "create_parent"],
                      fs |-> w.fs]
        ELSE IF p.pc = "scan" THEN
            LET incoming_paths == {files[i].filepath : i \in 1..Len(files)}
                list == Enumerate({e \in collect_existing_files(f, root) :
                                      e \notin incoming_paths})
            IN  IF list = <<>> THEN [p |-> Finish(p, [ok |-> TRUE]), fs |-> f]
                ELSE [p |-> [p EXCEPT !.pc = "remove", !.list = list], fs |-> f]
        ELSE \* "remove"
            LET r == remove_file(f, Join(root, p.list[p.i]))
            IN  [p |-> IF p.i = Len(p.list) THEN Finish(p, [ok |-> TRUE])
                       ELSE [p EXCEPT !.i = p.i + 1],
                 fs |-> r.fs]

\* collect_files, the traversal being one step.
CollectFilesStep(p, f) ==
    IF p.pc = "start" THEN
        IF ~Exists(f, p.call.root)
        THEN [p |-> Finish(p, [ok |-> FALSE, files |-> {}]), fs |-> f]
        ELSE [p |-> [p EXCEPT !.pc = "scan"], fs |-> f]
    ELSE LET r == collect_files(f, p.call.root)
         IN  [p |-> Finish(p, [ok |-> r.ok, files |-> r.files]), fs |-> f]

\* uninstall_skill, one filesystem call at a time.
UninstallStep(p, f) ==
    LET path == p.call.path
    IN  IF p.pc = "start" THEN
            [p |-> IF IsDir(f, path) THEN [p EXCEPT !.pc = "remove_dir_all"]
                   ELSE IF IsFile(f, path) THEN [p EXCEPT !.pc = "remove_file"]
                   ELSE Finish(p, [ok |-> TRUE]),
             fs |-> f]
        ELSE IF p.pc = "remove_dir_all" THEN
            LET r == remove_dir_all(f, path)
            IN  [p |-> Finish(p, [ok |-> r.ok]), fs |-> r.fs]
        ELSE IF p.pc = "remove_file" THEN
            LET r == remove_file(f, path)
            IN  [p |-> IF r.ok THEN [p EXCEPT !.pc = "remove_dir"]
                       ELSE Finish(p, [ok |-> FALSE]),
                 fs |-> r.fs]
        ELSE \* "remove_dir"
            [p |-> Finish(p, [ok |-> TRUE]), fs |-> remove_dir(f, Front(path)).fs]

\* install_skill_files_to_tools, one filesystem call at a time.
InstallFilesStep(p, f) ==
    LET files == p.call.files
        tool_ids == p.call.tool_ids
        t == FindTool(tool_ids[p.k])
        skills_dir == InstallSkillsDir(t.tool)
        skill_dir == JoinName(skills_dir, FolderName(p.call.skill_name))
        file_path == Join(skill_dir, files[p.i][1])
        failed(err) == Finish(p, [ok |-> FALSE, err |-> err, paths |-> <<>>])
        \* the loop over the tools goes on with tool k, or ends
        next_tool(q, k) ==
            IF k > Len(tool_ids)
            THEN Finish(q, [ok |-> TRUE, err |-> "", paths |-> q.paths])
            ELSE [q EXCEPT !.k = k, !.i = 1, !.pc = "start"]
        \* the loop over the files goes on with file i, or ends
        next_file(i) ==
            IF i > Len(files)
            THEN next_tool([p EXCEPT !.paths = Append(p.paths, skill_dir)], p.k + 1)
            ELSE [p EXCEPT !.i = i, !.pc = "parent_exists"]
    IN  IF p.pc = "start" THEN
            IF tool_ids = <<>> THEN [p |-> next_tool(p, 1), fs |-> f]
            ELSE IF ~t.some THEN [p |-> failed("Unknown tool"), fs |-> f]
            ELSE [p |-> [p EXCEPT !.pc = IF Exists(f, skills_dir) THEN "create_skill"
                                          ELSE "create_skills"],
                  fs |-> f]
        ELSE IF p.pc = "create_skills" THEN
            LET a == create_dir_all(f, skills_dir)
            IN  IF ~a.ok THEN [p |-> failed("Failed"), fs |-> a.fs]
                ELSE [p |-> [p EXCEPT !.pc = "create_skill"], fs |-> a.fs]
        ELSE IF p.pc = "create_skill" THEN
            LET b == create_dir_all(f, skill_dir)
            IN  IF ~b.ok THEN [p |-> failed("Failed"), fs |-> b.fs]
                ELSE [p |-> next_file(1), fs |-> b.fs]
        ELSE IF p.pc = "parent_exists" THEN
            [p |-> [p EXCEPT !.pc = IF file_path = <<>> \/ Exists(f, Front(file_path))
                                     THEN "write" ELSE "create_parent"],
             fs |-> f]
        ELSE IF p.pc = "create_parent" THEN
            LET d == create_dir_all(f, Front(file_path))
            IN  IF ~d.ok THEN [p |-> failed("Failed"), fs |-> d.fs]
                ELSE [p |-> [p EXCEPT !.pc = "write"], fs |-> d.fs]
        ELSE \* "write"
            LET w == write(f, file_path, as_bytes(files[p.i][2]))
            IN  IF ~w.ok THEN [p |-> failed("Failed"), fs |-> w.fs]
                ELSE [p |-> next_file(p.i + 1), fs |-> w.fs]

\* copy_skill, one filesystem call at a time; the copy of a directory is one
\* step.
CopySkillStep(p, f) ==
    LET source == p.call.source
        dest_base == p.call.dest_dir
        dest_path == Append(dest_base, FileName(source))
        failed(path) == Finish(p, [ok |-> FALSE, path |-> path])
    IN  IF p.pc = "start" THEN
            [p |-> [p EXCEPT !.pc = IF Exists(f, dest_base) THEN "collision"
                                     ELSE "create_dest"],
             fs |-> f]
        ELSE IF p.pc = "create_dest" THEN
            LET c == create_dir_all(f, dest_base)
            IN  IF ~c.ok THEN [p |-> failed(<<>>), fs |-> c.fs]
                ELSE [p |-> [p EXCEPT !.pc = "collision"], fs |-> c.fs]
        ELSE IF p.pc = "collision" THEN
            IF source = <<>> THEN [p |-> failed(<<>>), fs |-> f]
            ELSE IF Exists(f, dest_path) THEN [p |-> failed(dest_path), fs |-> f]
            ELSE [p |-> [p EXCEPT !.pc = IF IsDir(f, source) THEN "copy_dir"
                                          ELSE "copy"],
                  fs |-> f]
        ELSE LET r == IF p.pc = "copy_dir"
                      THEN copy_dir_recursive(f, source, dest_path)
                      ELSE copy(f, source, dest_path)
             IN  [p |-> Finish(p, [ok |-> r.ok, path |-> dest_path]), fs |-> r.fs]

\* One step of an operation in progress: [p, fs].
Step(p, f) ==
    IF p.call.name = "write_files" THEN WriteFilesStep(p, f)
    ELSE IF p.call.name = "collect_files" THEN CollectFilesStep(p, f)
    ELSE IF p.call.name = "uninstall_skill" THEN UninstallStep(p, f)
    ELSE IF p.call.name = "install_skill_files_to_tools" THEN InstallFilesStep(p, f)
    ELSE CopySkillStep(p, f)

\* No operation takes more steps than this.
MaxSteps == 12

RECURSIVE RunFrom(_, _, _)
\* The operation run to its end on its own: [p, fs].
RunFrom(p, f, fuel) ==
    IF p.pc = "done" \/ fuel = 0 THEN [p |-> p, fs |-> f]
    ELSE LET r == Step(p, f) IN RunFrom(r.p, r.fs, fuel - 1)

\* The call run to its end from the filesystem f.
Run(call, f) == RunFrom(NewProc(call), f, MaxSteps)

(***************************************************************************)
(* Two operations at once: each step is a step of one of the two.          *)
(***************************************************************************)
ConcSeeds ==
    {Mk({<<Home \o <<".claude">>, Dir>>, <<<<"w">>, Dir>>}),
     Mk({<<Home \o <<".claude", "skills", "sk1", "SKILL.md">>, Text>>,
         <<Home \o <<".claude", "skills", "sk2", "SKILL.md">>, Text>>,
         <<SyncRoot \o <<"a">>, Text>>,
         <<SyncRoot \o <<"old">>, Text>>,
         <<Home \o <<"dest">>, Dir>>})}

ConcCalls ==
    {[name |-> "write_files", root |-> SyncRoot,
      files |-> <<[filepath |-> <<"a">>, content |-> <<65>>]>>],
     [name |-> "write_files", root |-> SyncDst,
      files |-> <<[filepath |-> <<"a", Sep, "b">>, content |-> <<65>>]>>],
     [name |-> "collect_files", root |-> SyncRoot],
     [name |-> "uninstall_skill", path |-> Home \o <<".claude", "skills", "sk1">>],
     [name |-> "uninstall_skill",
      path |-> Home \o <<".claude", "skills", "sk2", "SKILL.md">>],
     [name |-> "uninstall_skill", path |-> SyncRoot \o <<"a">>],
     [name |-> "install_skill_files_to_tools", files |-> <<<<<<"SKILL.md">>, <<65>>>>>>,
      skill_name |-> MySkill, tool_ids |-> <<"claude">>],
     [name |-> "install_skill_files_to_tools",
      files |-> <<<<<<"a", Sep, "b">>, <<65>>>>>>,
      skill_name |-> <<65, 95, 49>>, tool_ids |-> <<"claude">>],
     [name |-> "copy_skill", source |-> Home \o <<".claude", "skills", "sk1">>,
      dest_dir |-> Home \o <<"dest">>],
     [name |-> "copy_skill", source |-> SyncRoot \o <<"a">>, dest_dir |-> <<"w", "c">>]}

\* The directories a call works in: the root it is given; for an uninstall
\* the directory to remove, or the directory of the file to remove; for an
\* install the skill directory of each tool; for a copy the source and the
\* destination directory.
WorksIn(call, f) ==
    IF call.name \in {"write_files", "collect_files"} THEN {call.root}
    ELSE IF call.name = "uninstall_skill" THEN
        {IF IsFile(f, call.path) THEN Front(call.path) ELSE call.path}
    ELSE IF call.name = "install_skill_files_to_tools" THEN
        {JoinName(InstallSkillsDir(FindTool(call.tool_ids[k]).tool),
                  FolderName(call.skill_name)) :
            k \in {j \in 1..Len(call.tool_ids) : FindTool(call.tool_ids[j]).some}}
    ELSE {call.source, call.dest_dir}

\* The two calls work in disjoint directory subtrees.
DisjointSubtrees(a, b, f) ==
    \A x \in WorksIn(a, f), y \in WorksIn(b, f) : ~IsPrefix(x, y) /\ ~IsPrefix(y, x)

\* A step of operation i; op counts the switches from one operation to the
\* other.
StepProc(i) ==
    /\ procs # <<>>
    /\ procs[i].pc # "done"
    /\ LET r == Step(procs[i], fs)
       IN  /\ procs' = [procs EXCEPT ![i] = r.p]
           /\ fs' = r.fs
    /\ op' = [op EXCEPT !.last = i,
                        !.switches = IF op.last \in {0, i} THEN @ ELSE @ + 1]
    /\ UNCHANGED <<res, pre, prev, nops>>

InitConcurrent ==
    \E f \in ConcSeeds, a \in ConcCalls, b \in ConcCalls :
        /\ a # b
        /\ DisjointSubtrees(a, b, f)
        /\ fs = f
        /\ op = [name |-> "concurrent", last |-> 0, switches |-> 0]
        /\ res = [ok |-> TRUE]
        /\ pre = f
        /\ prev = NoPrev
        /\ nops = 0
        /\ procs = <<NewProc(a), NewProc(b)>>
NextConcurrent == \E i \in {1, 2} : StepProc(i)
SpecConcurrent == InitConcurrent /\ [][NextConcurrent]_vars

\* Both operations have returned.
BothDone == procs # <<>> /\ procs[1].pc = "done" /\ procs[2].pc = "done"

\* The results and the filesystem are those of the call a run to its end
\* from the filesystem f, followed by the call b.
AsOneAfterTheOther(f, a, b, ra, rb) ==
    LET first == Run(a, f)
        second == Run(b, first.fs)
    IN  /\ ra = first.p.result
        /\ rb = second.p.result
        /\ fs = second.fs

\* C13 (concurrency): two operations on disjoint directory subtrees, their
\* filesystem steps interleaved in any order, return what they return, and
\* leave the filesystem they leave, when run one after the other, in either
\* order.
C13_Concurrent ==
    BothDone =>
        /\ AsOneAfterTheOther(pre, procs[1].call, procs[2].call,
                              procs[1].result, procs[2].result)
        /\ AsOneAfterTheOther(pre, procs[2].call, procs[1].call,
                              procs[2].result, procs[1].result)

\* An install and the uninstall of a skill of the same tool have both
\* returned Ok after their steps alternated at least three times.
C13_Witness ==
    /\ BothDone
    /\ op.switches >= 3
    /\ {procs[1].call.name, procs[2].call.name}
           = {"install_skill_files_to_tools", "uninstall_skill"}
    /\ procs[1].result.ok
    /\ procs[2].result.ok
    /\ fs # pre

(***************************************************************************)
(* Install into a project directory (tools.rs).                            *)
(***************************************************************************)
\* The mutant of trim_start_matches: the string as it is.
keep_start(s, c) == s

RECURSIVE trim_start_matches(_, _)
\* str::trim_start_matches(c) on a path string: every leading c goes.
trim_start_matches(s, c) ==
    IF s = <<>> \/ Head(s) = Sep THEN s
    ELSE LET cs == Codes(Head(s))
             from == IF \A k \in 1..Len(cs) : cs[k] = c THEN Len(cs) + 1
                     ELSE CHOOSE k \in 1..Len(cs) :
                              cs[k] # c /\ \A j \in 1..(k - 1) : cs[j] = c
         IN  IF from > Len(cs) THEN trim_start_matches(Tail(s), c)
             ELSE <<NameOf(SubSeq(cs, from, Len(cs)))>> \o Tail(s)

install_skill_to_project(f, skill_content, skill_name, project_path, tool_id) ==
    LET project_dir == project_path
        none == <<>>
    IN  IF ~Exists(f, project_dir)
        THEN [ok |-> FALSE, err |-> "Project directory does not exist",
              path |-> none, fs |-> f]
        ELSE LET t == FindTool(tool_id)
             IN  IF ~t.some
                 THEN [ok |-> FALSE, err |-> "Unknown tool", path |-> none, fs |-> f]
                 ELSE
    LET tool == t.tool
        folder_name == FolderName(skill_name)
        config_folder == trim_start_matches(tool.config_paths[1], 46)
        skills_dir == IF tool.primary_subpath = "." THEN Join(project_dir, config_folder)
                      ELSE JoinName(Join(project_dir, config_folder), tool.primary_subpath)
        a == IF Exists(f, skills_dir) THEN [ok |-> TRUE, fs |-> f]
             ELSE create_dir_all(f, skills_dir)
        skill_dir == JoinName(skills_dir, folder_name)
        skill_file == Append(skill_dir, "SKILL.md")
    IN  IF ~a.ok
        THEN [ok |-> FALSE, err |-> "Failed to create skills directory",
              path |-> none, fs |-> a.fs]
        ELSE LET b == create_dir_all(a.fs, skill_dir)
             IN  IF ~b.ok
                 THEN [ok |-> FALSE, err |-> "Failed to create skill directory",
                       path |-> none, fs |-> b.fs]
                 ELSE LET w == write(b.fs, skill_file, as_bytes(skill_content))
                      IN  IF ~w.ok
                          THEN [ok |-> FALSE, err |-> "Failed to write skill file",
                                path |-> none, fs |-> w.fs]
                          ELSE [ok |-> TRUE, err |-> "", path |-> skill_file,
                                fs |-> w.fs]

Project == <<"w", "p">>
ProjectSeeds ==
    {Mk({<<Project, Dir>>}),
     Mk({<<Project \o <<"claude">>, Text>>,
         <<Project \o <<"config", "opencode", "skills", "a_1", "SKILL.md">>, Text>>,
         <<Project \o <<"kilocode", "skills", "my-skill", "SKILL.md">>, Dir>>})}
ProjectPaths == {Project, <<"w", "missing">>, Project \o <<"claude">>}
ProjectToolIds == {"claude", "opencode", "kilocode", "bogus"}

InstallSkillToProject(content, skill_name, project_path, tool_id) ==
    LET r == install_skill_to_project(fs, content, skill_name, project_path, tool_id)
    IN  Called([name |-> "install_skill_to_project", content |-> content,
                skill_name |-> skill_name, project_path |-> project_path,
                tool_id |-> tool_id],
               [ok |-> r.ok, err |-> r.err, path |-> r.path], r.fs)

InitProject == \E f \in ProjectSeeds : Start(f)
NextProject ==
    \E content \in Contents, skill_name \in SkillNames,
       project_path \in ProjectPaths, tool_id \in ProjectToolIds :
        InstallSkillToProject(content, skill_name, project_path, tool_id)
SpecProject == InitProject /\ [][NextProject]_vars

\* <tool's first config path, leading dot stripped>/<primary subpath>
ProjectSkillsDir(id) ==
    IF id = "claude" THEN <<"claude", "skills">>
    ELSE IF id = "opencode" THEN <<"config", "opencode", "skills">>
    ELSE <<"kilocode", "skills">>

\* <projectPath>/<config folder>/<primary subpath>/<slug>/SKILL.md
ProjectTarget(project_path, id, skill_name) ==
    Append(JoinName(project_path \o ProjectSkillsDir(id), ExpectedFolder(skill_name)),
           "SKILL.md")

\* The call returned the target file, which holds the content.
ReturnsProjectTarget ==
    /\ op.tool_id \in ToolIds
    /\ res.ok
    /\ res.path = ProjectTarget(op.project_path, op.tool_id, op.skill_name)
    /\ IsFile(fs, res.path)
    /\ fs[res.path].data = as_bytes(op.content)

ProjectBlocked(f, project_path, id, skill_name) ==
    \/ \E q \in Prefixes(Front(ProjectTarget(project_path, id, skill_name))) : IsFile(f, q)
    \/ IsDir(f, ProjectTarget(project_path, id, skill_name))

file_stem(name) ==
    LET cs == Codes(name)
        dots == {i \in 1..Len(cs) : cs[i] = 46}
        k == CHOOSE i \in dots : \A j \in dots : j <= i
    IN  IF dots = {} \/ name = ".." THEN cs
        ELSE IF k = 1 THEN cs
        ELSE SubSeq(cs, 1, k - 1)

InstalledSkill(name, path, description, author, tool_id) ==
    [name |-> name, path |-> path, description |-> description,
     author |-> author, tool_id |-> tool_id]

\* The skills one entry adds to the list.
SkillsOfEntry(f, path, tool_id) ==
    IF StartsWithDot(FileName(path)) THEN <<>>
    ELSE IF IsDir(f, path) THEN
        LET skill_md == Append(path, "SKILL.md")
            content == read_to_string(f, skill_md)
        IN  IF Exists(f, skill_md) /\ content.some
            THEN LET parsed == parse_skill_md(content.str)
                 IN  <<InstalledSkill(IF parsed.name.some THEN parsed.name.str
                                      ELSE Codes(FileName(path)),
                                      path, parsed.description, parsed.author, tool_id)>>
            ELSE <<>>
    ELSE IF HasMdExtension(FileName(path)) THEN
        LET content == read_to_string(f, path)
        IN  IF content.some
            THEN LET parsed == parse_skill_md(content.str)
                 IN  <<InstalledSkill(IF parsed.name.some THEN parsed.name.str
                                      ELSE file_stem(FileName(path)),
                                      path, parsed.description, parsed.author, tool_id)>>
            ELSE <<>>
    ELSE <<>>

RECURSIVE CollectEntries(_, _, _, _)
\* The loop of collect_skills_from_dir over the entries in the order read.
CollectEntries(f, entries, tool_id, skills) ==
    IF entries = <<>> THEN skills
    ELSE CollectEntries(f, Tail(entries), tool_id,
                        skills \o SkillsOfEntry(f, Head(entries), tool_id))

\* entries: the entries of skills_dir in the order read_dir gives them.
collect_skills_from_dir(f, skills_dir, tool_id, entries, skills) ==
    IF ~IsDir(f, skills_dir) THEN skills
    ELSE CollectEntries(f, entries, tool_id, skills)

list_skills_in_dir(f, dir_path, entries) ==
    IF ~Exists(f, dir_path) THEN [ok |-> TRUE, skills |-> <<>>]
    ELSE [ok |-> TRUE,
          skills |-> collect_skills_from_dir(f, dir_path, "temp", entries, <<>>)]

MaxEntries == 3
ListRoot == <<"w", "d">>
\* "---\nname: T\n---\n"
NamedData == as_bytes(<<45, 45, 45, 10, 110, 97, 109, 101, 58, 32, 84, 10, 45, 45, 45, 10>>)
ListEntries ==
    {<<ListRoot \o <<"sk1", "SKILL.md">>, File(NamedData)>>,
     <<ListRoot \o <<"sk2", "SKILL.md">>, File(<<255>>)>>,
     <<ListRoot \o <<"sk3", "SKILL.md">>, Dir>>,
     <<ListRoot \o <<".hidden", "SKILL.md">>, Text>>,
     <<ListRoot \o <<"plain", "notes">>, Text>>,
     <<ListRoot \o <<"loose.md">>, Text>>,
     <<ListRoot \o <<"f.md">>, File(<<195>>)>>,
     <<ListRoot \o <<"N.MD">>, Text>>}
ListSeeds ==
    {Mk(E \cup {<<ListRoot, Dir>>}) : E \in {S \in SUBSET ListEntries : Cardinality(S) <= MaxEntries}}
        \cup {Mk({<<<<"w">>, Dir>>})}
ListPaths == {ListRoot, ListRoot \o <<"sk1">>, ListRoot \o <<"loose.md">>}

ListSkillsInDir(dir_path, entries) ==
    Called([name |-> "list_skills_in_dir", dir_path |-> dir_path],
           list_skills_in_dir(fs, dir_path, entries), fs)

CountSkillsInDir(dir) ==
    Called([name |-> "count_skills_in_dir", dir |-> dir],
           [ok |-> TRUE, count |-> count_skills_in_dir(fs, dir)], fs)

InitList == \E f \in ListSeeds : Start(f)
NextList ==
    \/ \E dir_path \in ListPaths :
            \E entries \in Perms(Children(fs, dir_path)) :
                ListSkillsInDir(dir_path, entries)
    \/ \E dir \in ListPaths : CountSkillsInDir(dir)
SpecList == InitList /\ [][NextList]_vars

\* The number discovery counts in dir: one per non-hidden subdirectory
\* containing SKILL.md, one per non-hidden direct child file with the
\* extension md.
DiscoveryCount(f, dir) ==
    Cardinality({p \in Children(f, dir) :
                    /\ ~StartsWithDot(FileName(p))
                    /\ \/ IsDir(f, p) /\ Exists(f, Append(p, "SKILL.md"))
                       \/ IsFile(f, p) /\ HasMdExtension(FileName(p))})

\* C15: list_skills_in_dir returns an empty list without error when the
\* directory does not exist, and otherwise lists as many skills as discovery
\* counts for the same directory, whether or not the skill files are text.
C15_ListMatchesCount ==
    /\ op.name = "list_skills_in_dir" =>
        /\ res.ok
        /\ ~Exists(pre, op.dir_path) => res.skills = <<>>
        /\ Exists(pre, op.dir_path) =>
              /\ Len(res.skills) = DiscoveryCount(pre, op.dir_path)
              /\ Len(res.skills) = count_skills_in_dir(pre, op.dir_path)
    /\ op.name = "count_skills_in_dir" => res.count = DiscoveryCount(pre, op.dir)

(***************************************************************************)
(* The tree builder: order of the children and the depth bound.            *)
(***************************************************************************)
RECURSIVE NodesOf(_)
\* The node n and the nodes below it.
NodesOf(n) ==
    {n} \cup (IF n.children.some
              THEN UNION {NodesOf(n.children.nodes[k]) : k \in 1..Len(n.children.nodes)}
              ELSE {})

LowerName(n) == to_lowercase(Codes(n.name))

\* Directories before files and, within each group, ascending by lower-cased
\* name.
DirsFirstByName(nodes) ==
    \A i \in 1..Len(nodes), j \in 1..Len(nodes) :
        i < j =>
            /\ nodes[i].is_dir \/ ~nodes[j].is_dir
            /\ nodes[i].is_dir = nodes[j].is_dir
                  => ~SeqLess(LowerName(nodes[j]), LowerName(nodes[i]))

\* C16: in every directory node of the tree get_folder_tree returns, the
\* children are ordered with the directory nodes before the file nodes and,
\* within each group, ascending by lower-cased name, and no child has a name
\* that begins with '.'.
C16_ChildOrder ==
    (op.name = "get_folder_tree" /\ res.ok) =>
        \A n \in NodesOf(res.node) :
            /\ n.is_dir <=> n.children.some
            /\ n.is_dir =>
                /\ DirsFirstByName(n.children.nodes)
                /\ \A k \in 1..Len(n.children.nodes) :
                       ~StartsWithDot(n.children.nodes[k].name)

\* A tree of /t, which holds a hidden directory, whose root lists the
\* directory sub before the files Alpha.md, b.txt and B.txt (these two in
\* this order) and image.png, sub listing its own directory inner.
C16_Witness ==
    /\ op.name = "get_folder_tree"
    /\ op.path = <<"t">>
    /\ res.ok
    /\ IsDir(pre, <<"t", ".hidden">>)
    /\ Len(res.node.children.nodes) = 5
    /\ [k \in 1..5 |-> res.node.children.nodes[k].name]
           = <<"sub", "Alpha.md", "b.txt", "B.txt", "image.png">>
    /\ Len(res.node.children.nodes[1].children.nodes) = 1
    /\ res.node.children.nodes[1].children.nodes[1].name = "inner"

RECURSIVE WithinDepth(_, _, _, _)
\* The node n, at depth d, and the nodes below it keep the depth bound on the
\* filesystem f: below the bound a directory node lists each entry of its
\* directory that is not hidden once, at the bound its child list is present
\* and empty, and there is no node beyond the bound.
WithinDepth(f, n, d, max_depth) ==
    /\ d <= max_depth
    /\ n.is_dir = IsDir(f, n.path)
    /\ n.is_dir =>
        /\ n.children.some
        /\ IF d = max_depth THEN n.children.nodes = <<>>
           ELSE LET nodes == n.children.nodes
                    listed == {nodes[k].path : k \in 1..Len(nodes)}
                IN  /\ listed = {q \in Children(f, n.path) : ~StartsWithDot(FileName(q))}
                    /\ Len(nodes) = Cardinality(listed)
                    /\ \A k \in 1..Len(nodes) :
                           WithinDepth(f, nodes[k], d + 1, max_depth)

\* C20: in the tree get_folder_tree(path, max_depth) returns, the root being
\* at depth 0, a directory node at a depth below max_depth lists every entry
\* of its directory that is not hidden, a directory node at depth max_depth
\* has a present, empty child list, and no node is deeper than max_depth.
C20_DepthBound ==
    (op.name = "get_folder_tree" /\ res.ok) =>
        WithinDepth(fs, res.node, 0, op.max_depth)

\* A tree of /t to depth 2 that lists /t/sub/inner, a directory with an entry
\* of its own, as a directory node without children, next to the files of /t.
C20_Witness ==
    /\ op.name = "get_folder_tree"
    /\ op.path = <<"t">>
    /\ op.max_depth = 2
    /\ res.ok
    /\ IsFile(pre, <<"t", "sub", "inner", "f.md">>)
    /\ IsFile(pre, <<"t", "Alpha.md">>)
    /\ Len(res.node.children.nodes) >= 2
    /\ res.node.children.nodes[1].path = <<"t", "sub">>
    /\ res.node.children.nodes[1].children.nodes[1].path = <<"t", "sub", "inner">>
    /\ IsChildlessDir(res.node.children.nodes[1].children.nodes[1])

(***************************************************************************)
(* Discovery: the primary skill path, the install target and the count.    *)
(***************************************************************************)
\* The first config root of the tool that exists in f.
FirstRoot(f, tool) ==
    LET hits == {k \in 1..Len(tool.config_paths) : Exists(f, Join(Home, tool.config_paths[k]))}
    IN  Join(Home, tool.config_paths[CHOOSE k \in hits : \A j \in hits : k <= j])

\* The skill subpath conventions of the tool whose directory exists under
\* its first existing config root.
ExistingConventions(f, tool) ==
    {k \in 1..Len(tool.all_subpaths) :
        Exists(f, JoinName(FirstRoot(f, tool), tool.all_subpaths[k]))}

\* C17: for an installed tool with several skill subpath conventions, one of
\* which exists under the resolved config directory, the skills path
\* detect_all_tools reports is the directory of the first convention, in
\* registry order, that exists.
C17_PrimaryIsFirstExisting ==
    op.name = "detect_all_tools" =>
        \A tool \in Tools :
            (/\ Len(tool.all_subpaths) > 1
             /\ \E c \in CandidateDirs(tool) : Exists(fs, c)
             /\ ExistingConventions(fs, tool) # {}) =>
                LET first == CHOOSE k \in ExistingConventions(fs, tool) :
                                 \A j \in ExistingConventions(fs, tool) : k <= j
                IN  Entry(res.tools, tool.id).skills_path
                        = JoinName(FirstRoot(fs, tool), tool.all_subpaths[first])

\* C18: every file install_skill_to_tools writes for a tool lies under the
\* skills path detect_all_tools reports for that tool in the state the
\* install is called in, whichever config root of the tool is the resolved
\* one.
C18_InstallUnderPrimary ==
    (op.name = "install_skill_to_tools" /\ res.ok) =>
        \A k \in 1..Len(res.paths) :
            IsPrefix(Entry(detect_all_tools(pre).tools, op.tool_ids[k]).skills_path,
                     res.paths[k])

\* The entries of dir that count as skills: not hidden, and a directory
\* containing SKILL.md or a file with the extension md.
SkillEntries(f, dir) ==
    {p \in Children(f, dir) :
        /\ ~StartsWithDot(FileName(p))
        /\ \/ IsDir(f, p) /\ Exists(f, Append(p, "SKILL.md"))
           \/ IsFile(f, p) /\ HasMdExtension(FileName(p))}

\* C19: for an installed tool, the count detect_all_tools reports is the sum,
\* over the tool's skill subpaths that exist under the resolved config
\* directory, of the non-hidden subdirectories containing SKILL.md and the
\* non-hidden direct child files with the extension md.
C19_CountIsSum ==
    op.name = "detect_all_tools" =>
        \A tool \in Tools :
            (\E c \in CandidateDirs(tool) : Exists(fs, c)) =>
                LET root == FirstRoot(fs, tool)
                    counted == UNION {SkillEntries(fs, JoinName(root, tool.all_subpaths[k])) :
                                        k \in ExistingConventions(fs, tool)}
                IN  /\ Entry(res.tools, tool.id).skills_count = Cardinality(counted)
                    /\ \A p \in counted : ~StartsWithDot(FileName(p))

\* A discovery that counts 2 skills for a tool with one skill in each of two
\* of its subpaths, 1 for a tool with one skill, and 0 for a tool whose
\* config root is a regular file.
C19_Witness ==
    /\ op.name = "detect_all_tools"
    /\ IsFile(fs, Home \o <<".kilocode", "skills", "sk1", "SKILL.md">>)
    /\ IsFile(fs, Home \o <<".kilocode", "skills-architect", "sk3", "SKILL.md">>)
    /\ Entry(res.tools, "kilocode").skills_count = 2
    /\ Entry(res.tools, "zed").skills_count = 1
    /\ Entry(res.tools, "claude").installed
    /\ Entry(res.tools, "claude").skills_count = 0

(***************************************************************************)
(* collect_files on the source trees, with roots that are a directory, a   *)
(* regular file, an ignored directory, or missing.                         *)
(***************************************************************************)
CollectRoots == {SyncRoot, SyncRoot \o <<"a">>, SyncRoot \o <<".git">>, SyncDst}

InitCollect == \E f \in SourceTrees : Start(f)
NextCollect == \E root \in CollectRoots : CollectFiles(root)
SpecCollect == InitCollect /\ [][NextCollect]_vars

\* The result holds one SyncFile for each non-ignored UTF-8 regular file
\* below the root, with its relative path, text, hash and byte length, and
\* nothing else.
ReturnsSyncedFiles ==
    LET synced == SyncedFiles(pre, op.root, TRUE)
    IN  /\ res.ok
        /\ Cardinality(res.files) = Cardinality(synced)
        /\ \A p \in synced :
            \E file \in res.files :
                /\ file.filepath = PathString(StripPrefix(p, op.root))
                /\ as_bytes(file.content) = pre[p].data
                /\ file.content_hash = Sha256(pre[p].data)
                /\ file.file_size = Len(pre[p].data)

KeptFiles(f, root, files, ignored, binary) ==
    {p \in DOMAIN f :
        /\ IsPrefix(root, p) /\ p # root /\ IsFile(f, p)
        /\ \/ ignored /\ ~NonIgnored(p, root)
           \/ binary /\ ~from_utf8(f[p].data).ok
        /\ \A i \in 1..Len(files) : Join(root, files[i].filepath) # p}

\* The files of the set P are in fs as they were before the call.
Untouched(P) == \A p \in P : IsFile(fs, p) /\ fs[p].data = pre[p].data

\* C22: write_files leaves every ignored file and every binary file below
\* the root that is no incoming path as it was; the sidecar .skillhub.json
\* is among them.
C22_KeepsIgnoredAndBinary ==
    op.name = "write_files" =>
        Untouched(KeptFiles(pre, op.root, op.files, TRUE, TRUE))

(***************************************************************************)
(* Bulk scans of a directory that holds files the process cannot read.     *)
(***************************************************************************)
ScanEntries ==
    {<<ListRoot \o <<"sk1", "SKILL.md">>, NoAccess(<<65>>)>>,
     <<ListRoot \o <<"sk2", "SKILL.md">>, Text>>,
     <<ListRoot \o <<"loose.md">>, Text>>,
     <<ListRoot \o <<"f.md">>, NoAccess(<<65>>)>>,
     <<ListRoot \o <<"notes">>, File(<<255>>)>>}
ScanSeeds ==
    {Mk(E \cup {<<ListRoot, Dir>>}) :
        E \in {S \in SUBSET ScanEntries : Cardinality(S) <= MaxEntries}}

InitScan == \E f \in ScanSeeds : Start(f)
NextScan ==
    \/ CollectFiles(ListRoot)
    \/ \E entries \in Perms(Children(fs, ListRoot)) : ListSkillsInDir(ListRoot, entries)
    \/ CountSkillsInDir(ListRoot)
SpecScan == InitScan /\ [][NextScan]_vars

\* The skill entries of dir whose skill file can be read as text.
ReadableSkills(f, dir) ==
    {p \in SkillEntries(f, dir) :
        LET file == IF IsDir(f, p) THEN Append(p, "SKILL.md") ELSE p
        IN  Readable(f, file) /\ from_utf8(f[file].data).ok}

\* C23: a scan of a directory (collect_files, list_skills_in_dir,
\* count_skills_in_dir) succeeds whether or not each file can be read, and
\* returns the results for the files that can.
C23_ScanContinues ==
    /\ op.name = "collect_files" =>
        /\ res.ok
        /\ \A p \in {q \in SyncedFiles(pre, op.root, TRUE) : Readable(pre, q)} :
            \E file \in res.files : file.filepath = PathString(StripPrefix(p, op.root))
    /\ op.name = "list_skills_in_dir" =>
        /\ res.ok
        /\ \A p \in ReadableSkills(pre, op.dir_path) :
            \E k \in 1..Len(res.skills) : res.skills[k].path = p
    /\ op.name = "count_skills_in_dir" =>
        res.ok /\ res.count = Cardinality(SkillEntries(pre, op.dir))

(***************************************************************************)
(* Two write_files calls at once on the same root.                         *)
(***************************************************************************)
\* Incoming sequences: none; a; a with another text; b; a/b; a and b; a/b
\* and b.
RaceFiles ==
    {<<>>,
     <<[filepath |-> <<"a">>, content |-> <<65>>]>>,
     <<[filepath |-> <<"a">>, content |-> <<233>>]>>,
     <<[filepath |-> <<"b">>, content |-> <<65>>]>>,
     <<[filepath |-> <<"a", Sep, "b">>, content |-> <<65>>]>>,
     <<[filepath |-> <<"a">>, content |-> <<65>>], [filepath |-> <<"b">>, content |-> <<233>>]>>,
     <<[filepath |-> <<"a", Sep, "b">>, content |-> <<65>>], [filepath |-> <<"b">>, content |-> <<233>>]>>}
RaceSeeds ==
    {Mk({<<<<"w">>, Dir>>}),
     Mk({<<SyncRoot \o <<".skillhub.json">>, File(<<65>>)>>,
         <<SyncRoot \o <<"old">>, File(<<66>>)>>})}

InitRace ==
    \E f \in RaceSeeds, s1 \in RaceFiles, s2 \in RaceFiles :
        /\ fs = f
        /\ op = [name |-> "race", last |-> 0, switches |-> 0]
        /\ res = [ok |-> TRUE]
        /\ pre = f
        /\ prev = NoPrev
        /\ nops = 0
        /\ procs = <<NewProc([name |-> "write_files", root |-> SyncRoot, files |-> s1]),
                     NewProc([name |-> "write_files", root |-> SyncRoot, files |-> s2])>>
NextRace == \E i \in {1, 2} : StepProc(i)
SpecRace == InitRace /\ [][NextRace]_vars

\* Both write_files calls have returned Ok.
RaceDone == op.name = "race" /\ BothDone /\ procs[1].result.ok /\ procs[2].result.ok

\* C24: when two write_files calls on the same root, run at once, have both
\* returned Ok, every non-ignored file below the root has a path and the
\* content given for that path by one of the two calls.
C24_LastWriteWins ==
    RaceDone =>
        \A e \in FileSet(fs, SyncRoot) :
            \E i \in {1, 2} : e \in Wanted(procs[i].call.files)

\* An interleaving of a call that writes a and a call that writes b on a
\* root that held the file old: each delete pass removed the file the other
\* call wrote, old is gone, the sidecar is there, and the file set that is
\* left (empty) is that of neither call.
C24_Witness ==
    /\ RaceDone
    /\ IsFile(pre, SyncRoot \o <<"old">>)
    /\ Wanted(procs[1].call.files) = {<<<<"a">>, <<65>>>>}
    /\ Wanted(procs[2].call.files) = {<<<<"b">>, <<65>>>>}
    /\ FileSet(fs, SyncRoot) = {}
    /\ IsFile(fs, SyncRoot \o <<".skillhub.json">>)


(***************************************************************************)
(* Installing for a list of tools that holds an unknown id.                *)
(***************************************************************************)
\* install_skill_to_tools failed on an id that is not in the registry.
FailedOnUnknownTool ==
    op.name = "install_skill_to_tools" /\ ~res.ok /\ res.err = "Unknown tool"

\* C26: when install_skill_to_tools fails because an id is unknown, the
\* filesystem is as it was before the call: nothing was created for the tools
\* listed before the unknown id.
C26_UnknownToolChangesNothing == FailedOnUnknownTool => fs = pre


\* C27: for every skill name, also one without any alphanumeric character,
\* hyphen or underscore, install_skill_to_tools writes SKILL.md into a
\* subdirectory of the tool's skills directory named by a non-empty slug,
\* never into the skills directory itself.
C27_SlugNotEmpty ==
    (op.name = "install_skill_to_tools" /\ res.ok) =>
        \A k \in 1..Len(res.paths) :
            LET skills_dir == InstallSkillsDir(FindTool(op.tool_ids[k]).tool)
            IN  /\ IsFile(fs, res.paths[k])
                /\ FolderName(op.skill_name) # ""
                /\ res.paths[k] = skills_dir \o <<FolderName(op.skill_name), "SKILL.md">>


\* C28: uninstall_skill of a path that is neither an existing directory nor
\* an existing file returns Ok and leaves the filesystem as it was.
C28_UninstallMissing ==
    (op.name = "uninstall_skill" /\ ~IsDir(pre, op.path) /\ ~IsFile(pre, op.path))
        => res.ok /\ fs = pre

\* An uninstall of ~/.claude/skills/missing, which does not exist, on a home
\* that holds skills, after some other call.
C28_Witness ==
    /\ op.name = "uninstall_skill"
    /\ op.path = Home \o <<".claude", "skills", "missing">>
    /\ ~Exists(pre, op.path)
    /\ \E p \in DOMAIN pre : IsFile(pre, p)
    /\ nops > 1
    /\ res.ok /\ fs = pre


(***************************************************************************)
(* copy_skill, one filesystem call at a time.  The calls of                *)
(* copy_dir_recursive in progress are a stack of frames [src, dst, pc,     *)
(* entries]: pc is "create" before create_dir_all(dst), "read" before      *)
(* read_dir(src), "loop" inside the loop over the entries read.            *)
(***************************************************************************)
NewCopy(call) == [call |-> call, pc |-> "start", stack |-> <<>>, result |-> [ok |-> TRUE]]
Frame(src, dst) == [src |-> src, dst |-> dst, pc |-> "create", entries |-> <<>>]

\* One step of the innermost copy_dir_recursive.
CopyDirStep(p, f) ==
    LET n == Len(p.stack)
        top == p.stack[n]
        dest_path == Append(p.call.dest_dir, FileName(p.call.source))
        failed == Finish(p, [ok |-> FALSE, path |-> dest_path])
        with(frame) == [p EXCEPT !.stack[n] = frame]
    IN  IF top.pc = "create" THEN
            IF Len(top.dst) > MaxPathLen THEN [p |-> failed, fs |-> f]
            ELSE LET c == create_dir_all(f, top.dst)
                 IN  IF ~c.ok THEN [p |-> failed, fs |-> c.fs]
                     ELSE [p |-> with([top EXCEPT !.pc = "read"]), fs |-> c.fs]
        ELSE IF top.pc = "read" THEN
            IF ~IsDir(f, top.src) THEN [p |-> failed, fs |-> f]
            ELSE [p |-> with([top EXCEPT !.pc = "loop",
                                         !.entries = Enumerate(Children(f, top.src))]),
                  fs |-> f]
        ELSE IF top.entries = <<>> THEN
            IF n = 1 THEN [p |-> Finish([p EXCEPT !.stack = <<>>],
                                        [ok |-> TRUE, path |-> dest_path]),
                           fs |-> f]
            ELSE [p |-> [p EXCEPT !.stack = Front(p.stack)], fs |-> f]
        ELSE LET entry_path == Head(top.entries)
                 to == Append(top.dst, FileName(entry_path))
                 rest == with([top EXCEPT !.entries = Tail(top.entries)])
             IN  IF IsDir(f, entry_path)
                 THEN [p |-> [rest EXCEPT !.stack = Append(@, Frame(entry_path, to))],
                       fs |-> f]
                 ELSE LET r == copy(f, entry_path, to)
                      IN  IF ~r.ok THEN [p |-> failed, fs |-> r.fs]
                          ELSE [p |-> rest, fs |-> r.fs]

\* One step of copy_skill.
CopyStep(p, f) ==
    LET source == p.call.source
        dest_base == p.call.dest_dir
        dest_path == Append(dest_base, FileName(source))
        failed(path) == Finish(p, [ok |-> FALSE, path |-> path])
    IN  IF p.pc = "start" THEN
            [p |-> [p EXCEPT !.pc = IF Exists(f, dest_base) THEN "collision"
                                     ELSE "create_dest"],
             fs |-> f]
        ELSE IF p.pc = "create_dest" THEN
            LET c == create_dir_all(f, dest_base)
            IN  IF ~c.ok THEN [p |-> failed(<<>>), fs |-> c.fs]
                ELSE [p |-> [p EXCEPT !.pc = "collision"], fs |-> c.fs]
        ELSE IF p.pc = "collision" THEN
            IF source = <<>> THEN [p |-> failed(<<>>), fs |-> f]
            ELSE IF Exists(f, dest_path) THEN [p |-> failed(dest_path), fs |-> f]
            ELSE IF IsDir(f, source)
                 THEN [p |-> [p EXCEPT !.pc = "walk", !.stack = <<Frame(source, dest_path)>>],
                       fs |-> f]
                 ELSE [p |-> [p EXCEPT !.pc = "copy"], fs |-> f]
        ELSE IF p.pc = "copy" THEN
            LET r == copy(f, source, dest_path)
            IN  [p |-> Finish(p, [ok |-> r.ok, path |-> dest_path]), fs |-> r.fs]
        ELSE CopyDirStep(p, f)

\* The number of copy_skill calls of a behaviour.
MaxCopies == 2

\* A skill directory with a file and a subdirectory, and an empty dest.
CopyTrees ==
    {Mk({<<Home \o <<"src", "my-skill", "SKILL.md">>, File(<<195, 169>>)>>,
         <<Home \o <<"src", "my-skill", "ref", "notes">>, Text>>,
         <<Home \o <<"dest">>, Dir>>})}
\* The skill directory, its file, a path that does not exist.
CopyFrom ==
    {Home \o <<"src", "my-skill">>,
     Home \o <<"src", "my-skill", "SKILL.md">>,
     Home \o <<"src", "missing">>}
\* Outside the skill directory (dest, and one to create); the skill directory
\* itself; an existing and a missing directory inside it; its parent.
CopyInto ==
    {Home \o <<"dest">>, Home \o <<"dest", "inner">>,
     Home \o <<"src", "my-skill">>,
     Home \o <<"src", "my-skill", "ref">>,
     Home \o <<"src", "my-skill", "sub">>,
     Home \o <<"src">>}

\* copy_skill is called when no call is in progress.
CopyCall(source, dest_dir) ==
    /\ IF procs = <<>> THEN TRUE ELSE procs[1].pc = "done"
    /\ nops < MaxCopies
    /\ procs' = <<NewCopy([name |-> "copy_skill", source |-> source, dest_dir |-> dest_dir])>>
    /\ pre' = fs
    /\ UNCHANGED <<fs, op, res, prev, nops>>

\* The call in progress takes a step; when it returns, op and res are the
\* call and its result, pre the filesystem it was called on.
CopyRun ==
    /\ procs # <<>>
    /\ procs[1].pc # "done"
    /\ LET r == CopyStep(procs[1], fs)
       IN  /\ procs' = <<r.p>>
           /\ fs' = r.fs
           /\ IF r.p.pc = "done"
              THEN /\ op' = r.p.call
                   /\ res' = r.p.result
                   /\ prev' = [op |-> op, res |-> res]
                   /\ nops' = nops + 1
              ELSE UNCHANGED <<op, res, prev, nops>>
    /\ pre' = pre

InitCopy == \E f \in CopyTrees : Start(f)
NextCopy ==
    \/ \E source \in CopyFrom, dest_dir \in CopyInto : CopyCall(source, dest_dir)
    \/ CopyRun
SpecCopy == InitCopy /\ [][NextCopy]_vars
\* The runtime keeps polling the future of a command until it returns.
SpecCopyFair == SpecCopy /\ WF_vars(CopyRun)

CopyRunning == procs # <<>> /\ procs[1].pc # "done"
CopyReturned == procs # <<>> /\ procs[1].pc = "done"

\* The tree at to in g has the structure and contents of the tree at from
\* in f.
SameTree(f, from, g, to) ==
    /\ Exists(g, to)
    /\ {StripPrefix(q, to) : q \in Subtree(g, to)}
           = {StripPrefix(q, from) : q \in Subtree(f, from)}
    /\ \A q \in Subtree(f, from) : g[to \o StripPrefix(q, from)] = f[q]

SKILLHUB_BASE_URL == <<104, 116, 116, 112, 115, 58, 47, 47, 119, 119, 119, 46, 115, 107, 105, 108, 108, 104, 117, 98, 46, 99, 108, 117, 98, 47, 97, 112, 105, 47, 118, 49, 47, 97, 110, 116, 104, 114, 111, 112, 105, 99>>
get_skillhub_config_dir == Home \o <<".skillhub">>
get_skillhub_config_path == get_skillhub_config_dir \o <<"config.json">>
\* SkillHubConfig::default()
DefaultConfig == [anthropic_base_url |-> None, anthropic_api_key |-> None]
\* The keys "anthropic_base_url" and "anthropic_api_key".
BaseUrlKey == <<97, 110, 116, 104, 114, 111, 112, 105, 99, 95, 98, 97, 115, 101, 95, 117, 114, 108>>
ApiKeyKey == <<97, 110, 116, 104, 114, 111, 112, 105, 99, 95, 97, 112, 105, 95, 107, 101, 121>>

\* An optional string as serde_json writes it.
JsonOption(o) == IF o.some THEN JsonString(o.str) ELSE <<110, 117, 108, 108>>

\* serde_json::to_string_pretty of a SkillHubConfig.
ConfigJson(config) ==
    <<123>> \o <<10, 32, 32>> \o JsonString(BaseUrlKey) \o <<58, 32>>
            \o JsonOption(config.anthropic_base_url) \o <<44>>
            \o <<10, 32, 32>> \o JsonString(ApiKeyKey) \o <<58, 32>>
            \o JsonOption(config.anthropic_api_key)
            \o <<10, 125>>

\* The reader of a SkillHubConfig: [ok, config, seen].  Its members are
\* strings or null; a key that is no field is skipped, a field given twice
\* is an error, a field not given is None.
NoConfig == [ok |-> FALSE, config |-> DefaultConfig, seen |-> {}]
RECURSIVE ConfigMembers(_, _, _)
\* After the value v of the key k.
ConfigStored(s, k, v, r) ==
    IF ~v.ok \/ k \in r.seen THEN NoConfig
    ELSE IF v.next <= Len(s) /\ s[v.next] = 44
    THEN ConfigMembers(s, v.next + 1,
                       [ok |-> TRUE,
                        config |-> IF k = BaseUrlKey THEN [r.config EXCEPT !.anthropic_base_url = v.value]
                                   ELSE IF k = ApiKeyKey THEN [r.config EXCEPT !.anthropic_api_key = v.value]
                                   ELSE r.config,
                        seen |-> r.seen \cup {k}])
    ELSE IF v.next <= Len(s) /\ s[v.next] = 125 /\ SkipWhitespace(s, v.next + 1) > Len(s)
    THEN [ok |-> TRUE,
          config |-> IF k = BaseUrlKey THEN [r.config EXCEPT !.anthropic_base_url = v.value]
                     ELSE IF k = ApiKeyKey THEN [r.config EXCEPT !.anthropic_api_key = v.value]
                     ELSE r.config,
          seen |-> r.seen \cup {k}]
    ELSE NoConfig
\* The value read at s[at]: [ok, value, next], next after the whitespace
\* that follows it.
ConfigValue(s, at, str) ==
    IF at <= Len(s) /\ s[at] = 34
    THEN [ok |-> str.ok, value |-> Some(str.str), next |-> SkipWhitespace(s, str.next)]
    ELSE IF SubSeq(s, at, at + 3) = <<110, 117, 108, 108>>
    THEN [ok |-> TRUE, value |-> None, next |-> SkipWhitespace(s, at + 4)]
    ELSE [ok |-> FALSE, value |-> None, next |-> at]
\* After the key, read as key, with the colon expected at s[colon].
ConfigKeyed(s, key, colon, r) ==
    IF ~key.ok \/ colon > Len(s) \/ s[colon] # 58 THEN NoConfig
    ELSE ConfigStored(s, key.str,
                      ConfigValue(s, SkipWhitespace(s, colon + 1),
                                  ParseString(s, SkipWhitespace(s, colon + 1))),
                      r)
ConfigMembers(s, i, r) ==
    ConfigKeyed(s, ParseString(s, SkipWhitespace(s, i)),
                SkipWhitespace(s, ParseString(s, SkipWhitespace(s, i)).next), r)

\* serde_json::from_str::<SkillHubConfig>(content).unwrap_or_default()
ConfigObject(s, open, first) ==
    IF open > Len(s) \/ s[open] # 123 THEN DefaultConfig
    ELSE IF first <= Len(s) /\ s[first] = 125
    THEN DefaultConfig
    ELSE ConfigMembers(s, first, [ok |-> TRUE, config |-> DefaultConfig, seen |-> {}]).config
ConfigFromStr(s) ==
    ConfigObject(s, SkipWhitespace(s, 1), SkipWhitespace(s, SkipWhitespace(s, 1) + 1))

read_skillhub_config(f) ==
    IF ~Exists(f, get_skillhub_config_path) THEN DefaultConfig
    ELSE LET content == read_to_string(f, get_skillhub_config_path)
         IN  IF content.some THEN ConfigFromStr(content.str) ELSE DefaultConfig

save_skillhub_config(f, config) ==
    LET c == IF Exists(f, get_skillhub_config_dir) THEN [ok |-> TRUE, fs |-> f]
             ELSE create_dir_all(f, get_skillhub_config_dir)
    IN  IF ~c.ok THEN c
        ELSE write(c.fs, get_skillhub_config_path, as_bytes(ConfigJson(config)))

\* The names of the variables, "ANTHROPIC_BASE_URL" and "ANTHROPIC_API_KEY".
BaseUrlVar == <<65, 78, 84, 72, 82, 79, 80, 73, 67, 95, 66, 65, 83, 69, 95, 85, 82, 76>>
ApiKeyVar == <<65, 78, 84, 72, 82, 79, 80, 73, 67, 95, 65, 80, 73, 95, 75, 69, 89>>

\* The pairs get_claude_env_vars returns.
get_claude_env_vars(f) ==
    LET config == read_skillhub_config(f)
    IN  (IF config.anthropic_base_url.some
         THEN <<<<BaseUrlVar, config.anthropic_base_url.str>>>> ELSE <<>>)
        \o (IF config.anthropic_api_key.some
            THEN <<<<ApiKeyVar, config.anthropic_api_key.str>>>> ELSE <<>>)

\* The shell configuration files, in the order they are gone through.
ShellConfigFiles == <<".zshrc", ".bashrc", ".bash_profile", ".profile">>
\* "export ANTHROPIC_BASE_URL=", "export ANTHROPIC_API_KEY=" and the
\* comment line.
ExportBaseUrl == <<101, 120, 112, 111, 114, 116, 32, 65, 78, 84, 72, 82, 79, 80, 73, 67, 95, 66, 65, 83, 69, 95, 85, 82, 76, 61>>
ExportApiKey == <<101, 120, 112, 111, 114, 116, 32, 65, 78, 84, 72, 82, 79, 80, 73, 67, 95, 65, 80, 73, 95, 75, 69, 89, 61>>
ConfigMarker == <<35, 32, 83, 107, 105, 108, 108, 72, 117, 98, 32, 67, 108, 97, 117, 100, 101, 32, 67, 111, 100, 101, 32, 67, 111, 110, 102, 105, 103, 117, 114, 97, 116, 105, 111, 110>>

\* The file configure_claude_code_unix writes, for the value of SHELL and
\* the target system.
ShellConfigFile(shell, macos) ==
    IF find(shell, <<122, 115, 104>>).some THEN ".zshrc"
    ELSE IF find(shell, <<98, 97, 115, 104>>).some THEN (IF macos THEN ".bash_profile" ELSE ".bashrc")
    ELSE ".profile"

\* The filter of both functions: the lines that are kept.
KeptLine(line) ==
    /\ ~starts_with(trim(line), ExportBaseUrl)
    /\ ~starts_with(trim(line), ExportApiKey)
    /\ ~find(trim(line), ConfigMarker).some

RECURSIVE JoinNewline(_)
\* [&str]::join("\n")
JoinNewline(ls) ==
    IF ls = <<>> THEN <<>>
    ELSE IF Len(ls) = 1 THEN ls[1]
    ELSE Head(ls) \o <<10>> \o JoinNewline(Tail(ls))

\* read_to_string(..).unwrap_or_default()
ReadOrDefault(f, p) == IF read_to_string(f, p).some THEN read_to_string(f, p).str ELSE <<>>

\* The content configure_claude_code_unix builds from the kept lines joined.
WithExports(joined, api_key) ==
    (IF joined # <<>> /\ Last(joined) = 10 THEN joined ELSE joined \o <<10>>)
        \o <<10>> \o ConfigMarker \o <<10>>
        \o ExportBaseUrl \o <<34>> \o SKILLHUB_BASE_URL \o <<34, 10>>
        \o ExportApiKey \o <<34>> \o api_key \o <<34, 10>>

configure_claude_code_unix(f, api_key, shell, macos) ==
    write(f, Home \o <<ShellConfigFile(shell, macos)>>,
          as_bytes(WithExports(
              JoinNewline(SelectSeq(lines(ReadOrDefault(f, Home \o <<ShellConfigFile(shell, macos)>>)),
                                    KeptLine)),
              api_key)))

\* configure_claude_code on a system that is not Windows.
configure_claude_code(f, api_key, shell, macos) ==
    LET s == save_skillhub_config(f, [anthropic_base_url |-> Some(SKILLHUB_BASE_URL),
                                      anthropic_api_key |-> Some(api_key)])
    IN  IF ~s.ok THEN s ELSE configure_claude_code_unix(s.fs, api_key, shell, macos)

RECURSIVE RemoveFrom(_, _)
\* The loop of remove_claude_code_config_unix from the k-th file on: a file
\* that exists is written back without the lines filtered out; the first
\* failed write ends the loop.
RemoveFrom(f, k) ==
    IF k > Len(ShellConfigFiles) THEN [ok |-> TRUE, fs |-> f]
    ELSE IF ~Exists(f, Home \o <<ShellConfigFiles[k]>>) THEN RemoveFrom(f, k + 1)
    ELSE LET w == write(f, Home \o <<ShellConfigFiles[k]>>,
                        as_bytes(JoinNewline(SelectSeq(
                            lines(ReadOrDefault(f, Home \o <<ShellConfigFiles[k]>>)),
                            KeptLine)) \o <<10>>))
         IN  IF ~w.ok THEN w ELSE RemoveFrom(w.fs, k + 1)

\* remove_claude_code_config on a system that is not Windows.
remove_claude_code_config(f) == RemoveFrom(f, 1)

\* The value of an export line after its prefix.
ExportValue(line, prefix) ==
    trim_matches(trim_matches(SubSeq(trim(line), Len(prefix) + 1, Len(trim(line))), 34), 39)

RECURSIVE ScanExports(_, _, _)
\* The last non-empty value among the lines that start with the prefix, or
\* the value found before them.
ScanExports(ls, prefix, found) ==
    IF ls = <<>> THEN found
    ELSE ScanExports(Tail(ls), prefix,
                     IF starts_with(trim(Head(ls)), prefix)
                        /\ ExportValue(Head(ls), prefix) # <<>>
                     THEN Some(ExportValue(Head(ls), prefix))
                     ELSE found)

RECURSIVE ScanShellFiles(_, _, _, _)
\* The loop of check_config_unix over the files from the k-th on.
ScanShellFiles(f, k, prefix, found) ==
    IF k > Len(ShellConfigFiles) THEN found
    ELSE ScanShellFiles(f, k + 1, prefix,
                        ScanExports(lines(ReadOrDefault(f, Home \o <<ShellConfigFiles[k]>>)),
                                    prefix, found))

\* std::env::var of ANTHROPIC_BASE_URL and of ANTHROPIC_API_KEY: neither is
\* set in the environment of the process.
env_var(name) == None

\* The preview of a key of ASCII characters.
ApiKeyPreview(k) ==
    IF Len(k) > 20 THEN SubSeq(k, 1, 12) \o <<46, 46, 46>> \o SubSeq(k, Len(k) - 3, Len(k)) ELSE k

\* The ConfigStatus of a pair of optional strings.
ConfigStatus(base_url, api_key) ==
    [base_url |-> base_url, api_key_set |-> api_key.some,
     api_key_preview |-> IF api_key.some THEN Some(ApiKeyPreview(api_key.str)) ELSE None]

check_config_unix(f) ==
    LET base_url == ScanShellFiles(f, 1, ExportBaseUrl, None)
        api_key == ScanShellFiles(f, 1, ExportApiKey, None)
    IN  ConfigStatus(IF base_url.some THEN base_url ELSE env_var(BaseUrlVar),
                     IF api_key.some THEN api_key ELSE env_var(ApiKeyVar))

\* check_config on a system that is not Windows.
check_config(f) ==
    LET local_config == read_skillhub_config(f)
    IN  IF local_config.anthropic_api_key.some
        THEN ConfigStatus(local_config.anthropic_base_url, local_config.anthropic_api_key)
        ELSE check_config_unix(f)

(***************************************************************************)
(* Configuring and removing the Claude Code configuration.                 *)
(***************************************************************************)
\* Homes: an empty one; one whose shell files hold lines of the user and
\* export lines; one where config.json is no JSON and .profile is a
\* directory; one where .skillhub is a regular file.
InstallerSeeds ==
    {Mk({<<Home, Dir>>}),
     Mk({<<Home \o <<".zshrc">>, File(<<97, 108, 105, 97, 115, 32, 120>> \o <<10>> \o ExportApiKey \o <<111, 108, 100>> \o <<10>>)>>,
         <<Home \o <<".bashrc">>, File(ExportBaseUrl \o <<39, 117, 39>>)>>}),
     Mk({<<get_skillhub_config_path, File(<<120>>)>>,
         <<Home \o <<".profile">>, Dir>>}),
     Mk({<<get_skillhub_config_dir, Text>>})}
\* The keys  sk | a"b | sk-0123456789abcdefghij
ApiKeys == {<<115, 107>>, <<97, 34, 98>>, <<115, 107, 45, 48, 49, 50, 51, 52, 53, 54, 55, 56, 57, 97, 98, 99, 100, 101, 102, 103, 104, 105, 106>>}
\* The values of SHELL: /bin/zsh, /bin/bash, /bin/sh.
Shells == {<<47, 98, 105, 110, 47, 122, 115, 104>>, <<47, 98, 105, 110, 47, 98, 97, 115, 104>>, <<47, 98, 105, 110, 47, 115, 104>>}

ConfigureClaudeCode(api_key, shell, macos) ==
    LET r == configure_claude_code(fs, api_key, shell, macos)
    IN  Called([name |-> "configure_claude_code", api_key |-> api_key,
                shell |-> shell, macos |-> macos],
               [ok |-> r.ok], r.fs)

RemoveClaudeCodeConfig ==
    LET r == remove_claude_code_config(fs)
    IN  Called([name |-> "remove_claude_code_config"], [ok |-> r.ok], r.fs)

GetClaudeEnvVars ==
    Called([name |-> "get_claude_env_vars"],
           [ok |-> TRUE, vars |-> get_claude_env_vars(fs)], fs)

CheckConfig ==
    Called([name |-> "check_config"], [ok |-> TRUE, status |-> check_config(fs)], fs)

InitInstaller == \E f \in InstallerSeeds : Start(f)
NextInstaller ==
    \/ \E api_key \in ApiKeys, shell \in Shells, macos \in BOOLEAN :
            ConfigureClaudeCode(api_key, shell, macos)
    \/ RemoveClaudeCodeConfig
    \/ GetClaudeEnvVars
    \/ CheckConfig
SpecInstaller == InitInstaller /\ [][NextInstaller]_vars

\* remove_claude_code_config has returned Ok, called after a
\* configure_claude_code that returned Ok.
RemovedAfterConfigure ==
    /\ op.name = "remove_claude_code_config" /\ res.ok
    /\ prev.op.name = "configure_claude_code" /\ prev.res.ok

\* C30: after configure_claude_code(k) followed by a successful
\* remove_claude_code_config, with no ANTHROPIC_* variable in the
\* environment, get_claude_env_vars returns neither ANTHROPIC_API_KEY nor
\* ANTHROPIC_BASE_URL and check_config reports api_key_set = false.
C30_RemoveClearsKey ==
    RemovedAfterConfigure =>
        /\ \A k \in 1..Len(get_claude_env_vars(fs)) :
               get_claude_env_vars(fs)[k][1] \notin {ApiKeyVar, BaseUrlVar}
        /\ ~check_config(fs).api_key_set

=============================================================================
